---- MODULE Spec2Model ----
(***************************************************************************)
(* Model of the research orchestration core of ACouncilOfAIEditors:        *)
(*   - AICouncil (langchain/chains/ai_council.py): provider enablement and *)
(*     the conduct_research fan-out / fan-in;                              *)
(*   - MongoDBService.add_subtopic_node (langchain/chains/                 *)
(*     research_services.py): grafting a node into a persisted tree;       *)
(*   - ResearchOrchestrator.research_selected_subtopics (langchain/chains/ *)
(*     research_chain.py): the batch runner for selected subtopics.        *)
(* Each part has its own specification (SpecCouncil, SpecTree, SpecBatch); *)
(* a specification holds the variables of the other parts still.           *)
(***************************************************************************)
EXTENDS Integers, Sequences, FiniteSets, TLC

VARIABLES
    \* ---- AICouncil -----------------------------------------------------
    members,          \* self.members[name]["enabled"]
    cr_pc,            \* position of the conduct_research invocation
    cr_topic,         \* its topic argument
    cr_session,       \* its session_id argument (Null when not supplied)
    invoked_enabled,  \* the providers enabled when it was invoked
    enabled_members,  \* the local list enabled_members
    results,          \* what asyncio.gather collects, one slot per task
    trees,            \* the trees mapping of the returned result_obj
    last_error,       \* what the last enable/disable call raised ("" if nothing)
    cr_out_of_order,  \* a call settled while one listed before it was pending
    cr_members_changed, \* the enablement changed while the calls were in flight
    \* ---- MongoDBService: the guides collection ---------------------------
    guides,           \* guide_collection: guide id -> document (or Absent)
    call,             \* the add_subtopic_node call of each caller
    next_id,          \* the next ObjectId the store hands out
    \* ---- ResearchOrchestrator.research_selected_subtopics ----------------
    br_pc,            \* position of the research_selected_subtopics call
    selected_topics,  \* its argument
    total_topics,     \* local total_topics
    completed_topics, \* local completed_topics
    br_i,             \* the loop variable i (start of the current batch)
    batch_tasks,      \* the tasks of the current batch, in order
    br_j,             \* how many results of the batch have been processed
    subtopic_results, \* local subtopic_results
    research_doc,     \* the db.research document of the guide
    guide_results,    \* research.subtopic_results of the guide document
    research_started, \* number of _research_subtopic coroutines started
    research_settled, \* number of _research_subtopic coroutines that returned
    store_writes,     \* number of update_one calls issued
    br_result,        \* what the call returned
    \* ---- GrokDeepSearchService.search ------------------------------------
    gs_pc,            \* position of the search call
    gs_content,       \* the content of the provider's reply
    gs_result,        \* what the call returned or that it raised
    \* ---- ResearchOrchestrator.run_research ------------------------------
    rr_pc,            \* position of the run_research call
    rr_guide_id,      \* self.guide_id
    rr_results,       \* self.results of the two searches
    rr_task,          \* the two search coroutines handed to gather
    rr_status,        \* the status field of the guide document
    rr_inserted,      \* number of guide documents inserted by the call
    rr_combined,      \* number of _combine_research_results calls
    rr_stored,        \* number of writes the research collection accepted
    rr_store_error,   \* a store operation of run_research itself raised
    rr_result,        \* what run_research returned or that it raised
    \* ---- start_research (POST /api/research) ----------------------------
    sr_request,       \* the last request handled
    sr_response,      \* the response to it
    sr_inserted,      \* number of guide documents inserted by the route
    sr_research_calls, \* number of research_topic calls started
    \* ---- MongoDBService.initialize / close ------------------------------
    mongo_connection, \* self.config.mongo_connection
    client,           \* self.client
    db,               \* self.db
    research_collection, \* self.research_collection
    guide_collection, \* self.guide_collection
    init_pc,          \* each coroutine's position in its initialize call
    clients_created,  \* number of AsyncIOMotorClient objects constructed
    \* ---- POST /subtopics/<guide_id> and its background run --------------
    sub_research,     \* the db.research document of the guide
    sub_request,      \* each request thread's position and what it read
    sub_run,          \* the background run each request started
    \* ---- create_research and get_research_results_api (app.py) ---------
    api_guides,       \* the guides collection
    api_pc,           \* position of the create_research request
    api_session,      \* session_id of the request
    api_result,       \* research_results_obj of the request
    api_response,     \* the response to the request
    api_get,          \* the last response of get_research_results_api
    \* ---- approve_research ------------------------------------------------
    ap_pc,            \* each request thread's position
    ap_response       \* the response each thread gave

councilVars == <<members, cr_pc, cr_topic, cr_session, invoked_enabled,
                 enabled_members, results, trees, last_error,
                 cr_out_of_order, cr_members_changed>>

treeVars == <<guides, call, next_id>>

batchVars == <<br_pc, selected_topics, total_topics, completed_topics, br_i,
               batch_tasks, br_j, subtopic_results, research_doc,
               guide_results, research_started, research_settled,
               store_writes, br_result>>

searchVars == <<gs_pc, gs_content, gs_result>>

runVars == <<rr_pc, rr_guide_id, rr_results, rr_task, rr_status, rr_inserted,
             rr_combined, rr_stored, rr_store_error, rr_result>>

startVars == <<sr_request, sr_response, sr_inserted, sr_research_calls>>

mongoVars == <<mongo_connection, client, db, research_collection, guide_collection, init_pc,
               clients_created>>

subVars == <<sub_research, sub_request, sub_run>>

apiVars == <<api_guides, api_pc, api_session, api_result, api_response,
            api_get>>

approveVars == <<ap_pc, ap_response>>

vars == <<councilVars, treeVars, batchVars, searchVars, runVars, startVars,
          mongoVars, subVars, apiVars, approveVars>>

\* What the actions of one part leave alone: the variables of the others.
councilOthers == <<treeVars, batchVars, searchVars, runVars, startVars,
                   mongoVars, subVars, apiVars, approveVars>>

treeOthers == <<councilVars, batchVars, searchVars, runVars, startVars,
                mongoVars, subVars, apiVars, approveVars>>

batchOthers == <<councilVars, treeVars, searchVars, runVars, startVars,
                 mongoVars, subVars, apiVars, approveVars>>

searchOthers == <<councilVars, treeVars, batchVars, runVars, startVars,
                  mongoVars, subVars, apiVars, approveVars>>

runOthers == <<councilVars, treeVars, batchVars, searchVars, startVars,
               mongoVars, subVars, apiVars, approveVars>>

startOthers == <<councilVars, treeVars, batchVars, searchVars, runVars,
                 mongoVars, subVars, apiVars, approveVars>>

mongoOthers == <<councilVars, treeVars, batchVars, searchVars, runVars,
                 startVars, subVars, apiVars, approveVars>>

subOthers == <<councilVars, treeVars, batchVars, searchVars, runVars,
               startVars, mongoVars, apiVars, approveVars>>

apiOthers == <<councilVars, treeVars, batchVars, searchVars, runVars,
               startVars, mongoVars, subVars, approveVars>>

\* approve_research writes the status of the guide run_research works on.
approveOthers == <<councilVars, treeVars, batchVars, searchVars, startVars,
                   mongoVars, subVars, apiVars>>

\* ------------------------------------------------------------------------
\* Values
\* ------------------------------------------------------------------------

\* Python's None (an absent session_id / node_id).
Null == 0

\* The keys of AICouncil.members, in the dict's insertion order.
MemberOrder == <<"claude", "chatgpt", "gemini", "grok">>

Providers == {MemberOrder[i] : i \in 1..Len(MemberOrder)}

\* A name that is not a key of AICouncil.members.
UnknownNames == {"bard"}

\* Topics and session ids a caller passes.
Topics == {"t1", "t2"}

SessionIds == {Null, 1}

\* The fields the prompt asks the model for (the ResearchOutput schema).
LLMFields == {"summary", "key_points", "entities", "timeline",
              "further_research", "references"}

\* The seven fields of a canonical research record.
CanonicalFields == LLMFields \cup {"web_results"}

\* The empty value of a field: the empty string for summary, the empty
\* sequence for the others.
EmptyValue(f) == IF f = "summary" THEN "" ELSE <<>>

\* The fields a provider's JSON reply may leave out: JsonOutputParser parses
\* the reply and does not validate it against ResearchOutput.
MissingChoices == {{}, {"timeline", "references"}}

\* AICouncilMember.research on success: the parsed reply of provider p (its
\* values tagged with p), plus the web_results the method adds.
ResearchReply(p, missing) ==
    [f \in (LLMFields \ missing) \cup {"web_results"} |->
        IF f = "summary" THEN p ELSE <<p>>]

\* One slot of the list asyncio.gather returns.
Pending == [kind |-> "pending", ai_name |-> "", result |-> <<>>]

\* research() raised: ResearchError(f"{self.name} research failed: ...").
Raised(p) == [kind |-> "exc", ai_name |-> p, result |-> <<>>]

\* research() returned {"ai_name": self.name, "result": result_dict, ...}.
Returned(p, missing) ==
    [kind |-> "ok", ai_name |-> p, result |-> ResearchReply(p, missing)]

\* ------------------------------------------------------------------------
\* AICouncil
\* ------------------------------------------------------------------------

\* for member_name, member_config in self.members.items():
\*     if member_config["enabled"]: enabled_members.append(member_name)
EnabledList(m) == SelectSeq(MemberOrder, LAMBDA n : m[n])

EnabledSet(m) == {n \in Providers : m[n]}

\* The prefix of the enabled list up to and including its first element in
\* the set broken (the member whose construction raises ends the loop).
RECURSIVE UpToFirstBroken(_, _)
UpToFirstBroken(s, broken) ==
    IF s = <<>> THEN <<>>
    ELSE IF Head(s) \in broken THEN <<Head(s)>>
    ELSE <<Head(s)>> \o UpToFirstBroken(Tail(s), broken)

\* Mutant of GatherRaises: gather without return_exceptions=True re-raises
\* the first exception of a task.
GatherRaisesFirstException(rs) == \E i \in 1..Len(rs) : rs[i].kind = "exc"

\* asyncio.gather(*tasks, return_exceptions=True) never raises a task's
\* exception: it puts it in the task's slot.
GatherRaises(rs) == FALSE

\* Mutant of FailureNode: a failed provider marked with status error.
FailureNodeStatusError(session_id, topic) ==
    [node_id |-> session_id, topic |-> topic, status |-> "error",
     research |-> [f \in LLMFields |-> EmptyValue(f)],
     children |-> <<>>]

\* The node conduct_research builds when result is an Exception.
FailureNode(session_id, topic) ==
    [node_id |-> session_id, topic |-> topic, status |-> "completed",
     research |-> [f \in LLMFields |-> EmptyValue(f)],
     children |-> <<>>]

\* Mutant of SuccessNode: the node of a successful provider without the
\* session id.
SuccessNodeNoId(session_id, topic, result) ==
    [node_id |-> Null, topic |-> topic, status |-> "completed",
     research |-> result.result,
     children |-> <<>>]

\* The node conduct_research builds from a returned result.
SuccessNode(session_id, topic, result) ==
    [node_id |-> session_id, topic |-> topic, status |-> "completed",
     research |-> result.result,
     children |-> <<>>]

\* Mutant of ResultIndex: the results read in the reverse of the task order.
ResultIndexReversed(i, n) == n + 1 - i

\* for i, member_name in enumerate(enabled_members): result = results[i]
ResultIndex(i, n) == i

\* Mutant of BuildTrees: the loop runs over the members enabled when gather
\* has returned, not over the local list enabled_members.
BuildTreesFromMembers(names, rs, session_id, topic) ==
    [p \in EnabledSet(members) |->
        IF \E k \in 1..Len(names) : names[k] = p /\ rs[k].kind = "ok"
        THEN SuccessNode(session_id, topic,
                         rs[CHOOSE k \in 1..Len(names) : names[k] = p])
        ELSE FailureNode(session_id, topic)]

\* The loop over enabled_members that fills trees.
BuildTrees(names, rs, session_id, topic) ==
    [p \in {names[i] : i \in 1..Len(names)} |->
        LET i == CHOOSE k \in 1..Len(names) : names[k] = p
            r == rs[ResultIndex(i, Len(names))]
        IN  IF r.kind = "exc"
            THEN FailureNode(session_id, topic)
            ELSE SuccessNode(session_id, topic, r)]

NoTrees == <<>>

\* The enablement becomes m while the calls of an invocation are in flight.
ChangedInFlight(m) == cr_pc = "gather" /\ m # members

\* Mutant of enable_member: no check of the name, the flag is set on
\* whatever key is given.
enable_member_unchecked(name) ==
    /\ members' = [n \in DOMAIN members \cup {name} |->
                      IF n = name THEN TRUE ELSE members[n]]
    /\ last_error' = ""
    /\ cr_members_changed' = (cr_members_changed \/ ChangedInFlight(members'))
    /\ UNCHANGED <<cr_pc, cr_topic, cr_session, invoked_enabled,
                   enabled_members, results, trees, cr_out_of_order,
                   councilOthers>>

\* AICouncil.enable_member
enable_member(name) ==
    /\ IF name \notin Providers
       THEN /\ last_error' = "Unknown member"
            /\ UNCHANGED members
       ELSE /\ members' = [members EXCEPT ![name] = TRUE]
            /\ last_error' = ""
    /\ cr_members_changed' = (cr_members_changed \/ ChangedInFlight(members'))
    /\ UNCHANGED <<cr_pc, cr_topic, cr_session, invoked_enabled,
                   enabled_members, results, trees, cr_out_of_order,
                   councilOthers>>

\* AICouncil.disable_member
disable_member(name) ==
    /\ IF name \notin Providers
       THEN /\ last_error' = "Unknown member"
            /\ UNCHANGED members
       ELSE /\ members' = [members EXCEPT ![name] = FALSE]
            /\ last_error' = ""
    /\ cr_members_changed' = (cr_members_changed \/ ChangedInFlight(members'))
    /\ UNCHANGED <<cr_pc, cr_topic, cr_session, invoked_enabled,
                   enabled_members, results, trees, cr_out_of_order,
                   councilOthers>>

\* research_subtopic_api (and ResearchService.research_subtopic) before its
\* conduct_research: every member's enabled flag is rewritten so that only
\* the requested ai is enabled. The ai of the request is not validated: for
\* a name that is no member every flag becomes False.
EnableOnly(ai) ==
    /\ members' = [n \in Providers |-> n = ai]
    /\ cr_members_changed' = (cr_members_changed \/ ChangedInFlight(members'))
    /\ UNCHANGED <<cr_pc, cr_topic, cr_session, invoked_enabled,
                   enabled_members, results, trees, last_error,
                   cr_out_of_order, councilOthers>>

\* conduct_research up to the await of asyncio.gather: the loop that
\* constructs one AICouncilMember per enabled member and creates its task.
\* AICouncilMember.__init__ calls _create_chain, which raises ResearchError
\* when the chain cannot be built; broken is the set of providers for which
\* it does. The loop runs without suspension.
ConductStart(topic, session_id, broken) ==
    /\ cr_pc = "idle"
    /\ cr_topic' = topic
    /\ cr_session' = session_id
    /\ invoked_enabled' = EnabledSet(members)
    /\ trees' = NoTrees
    /\ IF EnabledSet(members) \cap broken # {}
       THEN /\ cr_pc' = "raised"
            /\ enabled_members' = UpToFirstBroken(EnabledList(members), broken)
            /\ results' = <<>>
       ELSE /\ cr_pc' = "gather"
            /\ enabled_members' = EnabledList(members)
            /\ results' = [i \in 1..Len(EnabledList(members)) |-> Pending]
    /\ cr_out_of_order' = FALSE
    /\ cr_members_changed' = FALSE
    /\ UNCHANGED <<members, last_error, councilOthers>>

\* The task of enabled_members[i] settles: member.research(topic) returns
\* its result or raises ResearchError. Tasks settle in any order.
TaskSettle(i, r) ==
    /\ cr_pc = "gather"
    /\ i \in 1..Len(results)
    /\ results[i].kind = "pending"
    /\ r.ai_name = enabled_members[i]
    /\ results' = [results EXCEPT ![i] = r]
    /\ cr_pc' = IF GatherRaises(results') THEN "raised" ELSE "gather"
    /\ cr_out_of_order' =
          (cr_out_of_order \/ \E k \in 1..(i - 1) : results[k].kind = "pending")
    /\ UNCHANGED <<members, cr_topic, cr_session, invoked_enabled,
                   enabled_members, trees, last_error, cr_members_changed,
                   councilOthers>>

\* gather returns once every task has settled; conduct_research builds the
\* trees and returns result_obj.
ConductFinish ==
    /\ cr_pc = "gather"
    /\ \A i \in 1..Len(results) : results[i].kind # "pending"
    /\ trees' = BuildTrees(enabled_members, results, cr_session, cr_topic)
    /\ cr_pc' = "returned"
    /\ UNCHANGED <<members, cr_topic, cr_session, invoked_enabled,
                   enabled_members, results, last_error, cr_out_of_order,
                   cr_members_changed, councilOthers>>

\* The caller has taken the result (or the exception): the council is free
\* for the next invocation.
ConductDone ==
    /\ cr_pc \in {"returned", "raised"}
    /\ cr_pc' = "idle"
    /\ cr_topic' = ""
    /\ cr_session' = Null
    /\ invoked_enabled' = {}
    /\ enabled_members' = <<>>
    /\ results' = <<>>
    /\ trees' = NoTrees
    /\ cr_out_of_order' = FALSE
    /\ cr_members_changed' = FALSE
    /\ UNCHANGED <<members, last_error, councilOthers>>

CouncilNext ==
    \/ \E name \in Providers \cup UnknownNames : enable_member(name)
    \/ \E name \in Providers \cup UnknownNames : disable_member(name)
    \/ \E ai \in Providers \cup UnknownNames : EnableOnly(ai)
    \/ \E topic \in Topics, session_id \in SessionIds, broken \in SUBSET Providers :
          ConductStart(topic, session_id, broken)
    \/ \E i \in 1..Len(MemberOrder), p \in Providers :
          \/ TaskSettle(i, Raised(p))
          \/ \E missing \in MissingChoices : TaskSettle(i, Returned(p, missing))
    \/ ConductFinish
    \/ ConductDone


\* ------------------------------------------------------------------------
\* MongoDBService: guides and add_subtopic_node
\* ------------------------------------------------------------------------

\* Number of subtopic nodes created (each takes a fresh ObjectId).
MaxNewNodes == 4

\* The guide ids requests name. A guide's root nodes carry the guide id as
\* node_id (conduct_research is called with session_id = guide id).
GuideIds == {1}

\* The first ObjectId handed out to a subtopic node.
FirstNodeId == 2

\* The concurrent callers of add_subtopic_node.
Callers == {"c1", "c2"}

\* The providers whose trees the stored results hold, and the ai a subtopic
\* request names.
TreeProviders == {"claude", "grok"}

\* find_one found no document.
Absent == [exists |-> FALSE, status |-> "", has_trees |-> FALSE, trees |-> <<>>]

\* node.get("node_id")
NodeId(node) == IF "node_id" \in DOMAIN node THEN node.node_id ELSE Null

\* node["children"] when the key is there
Children(node) == IF "children" \in DOMAIN node THEN node.children ELSE <<>>

\* if "children" not in node: node["children"] = []
\* node["children"].append(new_node)      (and $push on the children array)
AppendChild(node, new_node) ==
    [f \in DOMAIN node \cup {"children"} |->
        IF f = "children" THEN Append(Children(node), new_node) ELSE node[f]]

\* Node.find_node_by_id: the first node, in depth-first pre-order, whose
\* node_id is the given one; <<>> (for None) when there is none.
RECURSIVE find_node_by_id(_, _)
RECURSIVE FindInChildren(_, _)
find_node_by_id(node, node_id) ==
    IF NodeId(node) = node_id THEN node
    ELSE FindInChildren(Children(node), node_id)

FindInChildren(kids, node_id) ==
    IF kids = <<>> THEN <<>>
    ELSE LET found == find_node_by_id(Head(kids), node_id) IN
         IF found # <<>> THEN found ELSE FindInChildren(Tail(kids), node_id)

\* Mutant of traverse_and_update: the search stops below the children of the
\* root (no recursion into grandchildren).
RECURSIVE TraverseTwoLevels(_, _, _, _)
TraverseTwoLevels(node, parent_node_id, new_node, level) ==
    IF NodeId(node) = parent_node_id
    THEN AppendChild(node, new_node)
    ELSE IF level >= 1 \/ "children" \notin DOMAIN node THEN node
    ELSE [node EXCEPT !.children =
             [i \in 1..Len(@) |->
                 IF \A k \in 1..(i - 1) :
                        TraverseTwoLevels(@[k], parent_node_id, new_node, level + 1) = @[k]
                 THEN TraverseTwoLevels(@[i], parent_node_id, new_node, level + 1)
                 ELSE @[i]]]

traverse_shallow(node, parent_node_id, new_node) ==
    TraverseTwoLevels(node, parent_node_id, new_node, 0)

\* traverse_and_update on the in-memory copy of the tree: depth-first,
\* pre-order; the first node whose node_id is parent_node_id gets new_node
\* appended, and the found flag ends the search. The result is the tree
\* after the traversal (the tree itself when no node matched).
RECURSIVE traverse_and_update(_, _, _)
RECURSIVE TraverseChildren(_, _, _)
traverse_and_update(node, parent_node_id, new_node) ==
    IF NodeId(node) = parent_node_id
    THEN AppendChild(node, new_node)
    ELSE IF "children" \in DOMAIN node
         THEN [node EXCEPT !.children =
                   TraverseChildren(@, parent_node_id, new_node)]
         ELSE node

TraverseChildren(kids, parent_node_id, new_node) ==
    IF kids = <<>> THEN <<>>
    ELSE LET head == traverse_and_update(Head(kids), parent_node_id, new_node) IN
         IF head # Head(kids)
         THEN <<head>> \o Tail(kids)
         ELSE <<Head(kids)>> \o TraverseChildren(Tail(kids), parent_node_id, new_node)

\* The document has a tree for ai.
HasTree(doc, ai) == doc.exists /\ doc.has_trees /\ ai \in DOMAIN doc.trees

RootFilterNever(doc, ai, parent_node_id) == FALSE

\* The filter {"_id": guide_id, "trees.<ai>.node_id": parent_node_id}: an
\* equality with None also matches a document in which the path is missing.
RootFilterMatches(doc, ai, parent_node_id) ==
    /\ doc.exists
    /\ IF HasTree(doc, ai)
       THEN NodeId(doc.trees[ai]) = parent_node_id
       ELSE parent_node_id = Null

\* Mutant of PushRootChild: the update matches and pushes nothing.
PushRootChildNothing(doc, ai, new_node) == doc

\* {"$push": {"trees.<ai>.children": new_node}}: appends to the array and
\* creates the path when it is missing.
PushRootChild(doc, ai, new_node) ==
    [doc EXCEPT
        !.has_trees = TRUE,
        !.trees = [a \in DOMAIN doc.trees \cup {ai} |->
                      IF a # ai THEN doc.trees[a]
                      ELSE IF ai \in DOMAIN doc.trees
                           THEN AppendChild(doc.trees[ai], new_node)
                           ELSE [children |-> <<new_node>>]]]

\* Mutant of SetTree: the whole trees mapping replaced by the one tree.
SetTreeOnly(doc, ai, tree) ==
    [doc EXCEPT !.has_trees = TRUE, !.trees = [a \in {ai} |-> tree]]

\* {"$set": {"trees.<ai>": tree}} on the stored document.
SetTree(doc, ai, tree) ==
    [doc EXCEPT
        !.has_trees = TRUE,
        !.trees = [a \in DOMAIN doc.trees \cup {ai} |->
                      IF a = ai THEN tree ELSE doc.trees[a]]]

\* Mutant of NewNode: every new node gets the same node_id.
NewNodeFixedId(node_id, topic) ==
    [node_id |-> FirstNodeId, topic |-> topic, status |-> "completed",
     research |-> <<>>, children |-> <<>>]

\* The new_node a subtopic request builds (app.py): a fresh node_id, status
\* completed, no children.
NewNode(node_id, topic) ==
    [node_id |-> node_id, topic |-> topic, status |-> "completed",
     research |-> <<>>, children |-> <<>>]

IdleCall ==
    [pc |-> "idle", guide_id |-> Null, ai |-> "", parent_node_id |-> Null,
     new_node |-> <<>>, guide |-> Absent, ret |-> FALSE]

\* create_research: store_research of the new session document (status
\* initializing, no trees) inserts the guide.
CreateGuide(g) ==
    /\ ~guides[g].exists
    /\ guides' = [guides EXCEPT ![g] =
          [exists |-> TRUE, status |-> "initializing",
           has_trees |-> FALSE, trees |-> <<>>]]
    /\ UNCHANGED <<call, next_id, treeOthers>>

\* store_research(result_obj, guide_id) with the result of conduct_research
\* for the guide: $set of status and trees, with upsert. enabled is the set
\* of providers that were enabled and failed the ones whose call failed.
StoreResearch(g, topic, enabled, failed) ==
    /\ LET names == SelectSeq(MemberOrder, LAMBDA n : n \in enabled)
           rs == [i \in 1..Len(names) |->
                     IF names[i] \in failed THEN Raised(names[i])
                     ELSE Returned(names[i], {})]
       IN guides' = [guides EXCEPT ![g] =
             [exists |-> TRUE, status |-> "completed", has_trees |-> TRUE,
              trees |-> BuildTrees(names, rs, g, topic)]]
    /\ UNCHANGED <<call, next_id, treeOthers>>

\* add_subtopic_node is called (its first get_guide only feeds the log).
AddStart(c, g, ai, parent_node_id, topic) ==
    /\ call[c].pc = "idle"
    /\ next_id < FirstNodeId + MaxNewNodes
    /\ call' = [call EXCEPT ![c] =
          [pc |-> "push", guide_id |-> g, ai |-> ai,
           parent_node_id |-> parent_node_id,
           new_node |-> NewNode(next_id, topic),
           guide |-> Absent, ret |-> FALSE]]
    /\ next_id' = next_id + 1
    /\ UNCHANGED <<guides, treeOthers>>

\* First attempt: update_one with the root filter and $push. When it
\* modified the document the call returns True.
RootPush(c) ==
    /\ call[c].pc = "push"
    /\ LET k == call[c]
           doc == guides[k.guide_id]
       IN  IF RootFilterMatches(doc, k.ai, k.parent_node_id)
           THEN /\ guides' = [guides EXCEPT ![k.guide_id] =
                                 PushRootChild(doc, k.ai, k.new_node)]
                /\ call' = [call EXCEPT ![c].pc = "done", ![c].ret = TRUE]
           ELSE /\ call' = [call EXCEPT ![c].pc = "reread"]
                /\ UNCHANGED guides
    /\ UNCHANGED <<next_id, treeOthers>>

\* modified_count == 0: get_guide again; without guide, trees or the ai's
\* tree the call returns False.
GetGuide(c) ==
    /\ call[c].pc = "reread"
    /\ LET k == call[c]
           doc == guides[k.guide_id]
       IN  IF ~HasTree(doc, k.ai)
           THEN call' = [call EXCEPT ![c].pc = "done", ![c].ret = FALSE]
           ELSE call' = [call EXCEPT ![c].pc = "traverse", ![c].guide = doc]
    /\ UNCHANGED <<guides, next_id, treeOthers>>

\* The traversal of the copy read by get_guide and, when it found the
\* parent, the update_one that writes the whole tree of the ai back; found
\* is whether that update modified the document.
TraverseAndUpdate(c) ==
    /\ call[c].pc = "traverse"
    /\ LET k == call[c]
           old == k.guide.trees[k.ai]
           new == traverse_and_update(old, k.parent_node_id, k.new_node)
           doc == guides[k.guide_id]
           written == IF doc.exists THEN SetTree(doc, k.ai, new) ELSE doc
       IN  IF new = old
           THEN /\ call' = [call EXCEPT ![c].pc = "done", ![c].ret = FALSE]
                /\ UNCHANGED guides
           ELSE /\ guides' = [guides EXCEPT ![k.guide_id] = written]
                /\ call' = [call EXCEPT ![c].pc = "done",
                                        ![c].ret = (written # doc)]
    /\ UNCHANGED <<next_id, treeOthers>>

\* The caller has the return value.
AddReturn(c) ==
    /\ call[c].pc = "done"
    /\ call' = [call EXCEPT ![c] = IdleCall]
    /\ UNCHANGED <<guides, next_id, treeOthers>>

\* research_subtopic_api after its await of add_subtopic_node: result is
\* written to the log and the response is built from new_node alone.
SubtopicResponse(result, new_node) ==
    [status |-> "success", node |-> new_node]

\* No add_subtopic_node call is in progress.
NoCallActive == \A c \in Callers : call[c].pc = "idle"

\* Requests served one at a time.
TreeNextSequential ==
    \/ \E g \in GuideIds : NoCallActive /\ CreateGuide(g)
    \/ \E g \in GuideIds, topic \in Topics, enabled \in SUBSET TreeProviders :
          \E failed \in {{}, enabled} :
              NoCallActive /\ StoreResearch(g, topic, enabled, failed)
    \/ \E c \in Callers, g \in GuideIds, ai \in TreeProviders,
          parent_node_id \in {Null} \cup (1..next_id) :
              NoCallActive /\ AddStart(c, g, ai, parent_node_id, "sub")
    \/ \E c \in Callers : RootPush(c)
    \/ \E c \in Callers : GetGuide(c)
    \/ \E c \in Callers : TraverseAndUpdate(c)
    \/ \E c \in Callers : AddReturn(c)

\* Number of subtopic nodes created when the calls may overlap.
MaxRaceNodes == 3

\* Requests for subtopics served concurrently: the add_subtopic_node calls
\* of the callers interleave at their awaits (each update_one and get_guide
\* is one step); the results of a top-level research are stored while no
\* call is in progress.
TreeNextConcurrent ==
    \/ \E g \in GuideIds, enabled \in SUBSET TreeProviders :
          \E failed \in {{}, enabled} :
              NoCallActive /\ StoreResearch(g, "t1", enabled, failed)
    \/ \E c \in Callers, g \in GuideIds, ai \in TreeProviders,
          parent_node_id \in {Null} \cup (1..next_id) :
              /\ next_id < FirstNodeId + MaxRaceNodes
              /\ AddStart(c, g, ai, parent_node_id, "sub")
    \/ \E c \in Callers : RootPush(c)
    \/ \E c \in Callers : GetGuide(c)
    \/ \E c \in Callers : TraverseAndUpdate(c)
    \/ \E c \in Callers : AddReturn(c)

\* ------------------------------------------------------------------------
\* ResearchOrchestrator.research_selected_subtopics
\* ------------------------------------------------------------------------

\* Longest list of selected topics.
MaxTopics == 4

\* concurrency_limit = 3  # Process 3 topics at a time
concurrency_limit == 3

\* The entries a caller selects: named topics and one with an empty name
\* (the route does not validate the entries of selected_topics).
TopicData == {[topic |-> "a", rationale |-> "r"],
              [topic |-> "b", rationale |-> "r"],
              [topic |-> "", rationale |-> "r"]}

\* The lists of at most n entries.
TopicLists(n) == UNION {[1..k -> TopicData] : k \in 0..n}

\* subtopic_research_progress as initialize_research writes it.
InitialProgress == [total_topics |-> 0, completed_topics |-> 0]

NoResult == [status |-> "none"]

\* Mutant of NoTopicsSelected: the empty list is let through.
NoTopicsSelectedNever(topics) == FALSE

\* if not selected_topics:
NoTopicsSelected(topics) == topics = <<>>

\* Mutant of BatchSlice: the batch is all the topics from i on.
BatchSliceToEnd(topics, i, limit) ==
    [k \in 1..(Len(topics) - i) |-> topics[i + k]]

\* batch = selected_topics[i:i+concurrency_limit]   (i counts from 0)
BatchSlice(topics, i, limit) ==
    LET last == IF i + limit < Len(topics) THEN i + limit ELSE Len(topics)
    IN  [k \in 1..(last - i) |-> topics[i + k]]

\* The loop over the batch: one task per entry with a non-empty topic name
\* (entries without one are skipped by continue).
BatchTasks(batch) ==
    LET named == SelectSeq(batch, LAMBDA td : td.topic # "")
    IN  [k \in 1..Len(named) |-> [topic |-> named[k].topic, state |-> "running"]]

\* Mutant of SubtopicOutcome: a failed research reported as completed.
SubtopicOutcomeNoError(task) == [topic |-> task.topic, status |-> "completed"]

\* What _research_subtopic returns: a completed record, or, when
\* run_research raised, an error record (the exception is caught there).
SubtopicOutcome(task) ==
    IF task.state = "completed"
    THEN [topic |-> task.topic, status |-> "completed"]
    ELSE [topic |-> task.topic, status |-> "error", error |-> "str(e)"]

\* Mutant of UpdateProgress: the number of topics still to do is written as
\* completed_topics.
UpdateProgressRemaining(doc, total, completed, store_ok) ==
    IF store_ok
    THEN [doc EXCEPT !.progress =
             [total_topics |-> total, completed_topics |-> total - completed]]
    ELSE doc

\* _update_subtopic_research_progress: update_one of the progress record; an
\* exception of the store is caught and printed.
UpdateProgress(doc, total, completed, store_ok) ==
    IF store_ok
    THEN [doc EXCEPT !.progress =
             [total_topics |-> total, completed_topics |-> completed]]
    ELSE doc

\* Mutant of AllSettled: gather returns when its first task has settled.
FirstSettled == batch_tasks # <<>> => batch_tasks[1].state # "running"

\* await asyncio.gather(*batch_tasks, ...) returns when every task has.
AllSettled == \A k \in 1..Len(batch_tasks) : batch_tasks[k].state # "running"

\* research_selected_subtopics is called: the check for an empty list, the
\* initialisation of the counters and the first progress write.
BatchCall(topics, store_ok) ==
    /\ br_pc = "idle"
    /\ selected_topics' = topics
    /\ IF NoTopicsSelected(topics)
       THEN /\ br_pc' = "done"
            /\ br_result' = [status |-> "error", message |-> "No topics selected",
                             subtopics_researched |-> 0]
            /\ UNCHANGED <<total_topics, completed_topics, research_doc,
                           store_writes>>
       ELSE /\ br_pc' = "batch"
            /\ total_topics' = Len(topics)
            /\ completed_topics' = 0
            /\ research_doc' = UpdateProgress(research_doc, Len(topics), 0, store_ok)
            /\ store_writes' = store_writes + 1
            /\ UNCHANGED br_result
    /\ UNCHANGED <<br_i, batch_tasks, br_j, subtopic_results, guide_results,
                   research_started, research_settled, batchOthers>>

\* One round of for i in range(0, total_topics, concurrency_limit) up to the
\* await of gather: the batch is cut and its tasks are created; a batch
\* without tasks is passed over.
BatchGather ==
    /\ br_pc = "batch"
    /\ br_i < total_topics
    /\ LET tasks == BatchTasks(BatchSlice(selected_topics, br_i, concurrency_limit))
       IN  IF tasks = <<>>
           THEN /\ br_i' = br_i + concurrency_limit
                /\ UNCHANGED <<br_pc, batch_tasks, research_started>>
           ELSE /\ batch_tasks' = tasks
                /\ research_started' = research_started + Len(tasks)
                /\ br_pc' = "gather"
                /\ UNCHANGED br_i
    /\ br_j' = 0
    /\ UNCHANGED <<selected_topics, total_topics, completed_topics,
                   subtopic_results, research_doc, guide_results, store_writes,
                   research_settled, br_result, batchOthers>>

\* One task of the batch settles: _research_subtopic returns its record.
SubtopicSettle(k, state) ==
    /\ br_pc = "gather"
    /\ k \in 1..Len(batch_tasks)
    /\ batch_tasks[k].state = "running"
    /\ batch_tasks' = [batch_tasks EXCEPT ![k].state = state]
    /\ research_settled' = research_settled + 1
    /\ UNCHANGED <<br_pc, selected_topics, total_topics, completed_topics, br_i,
                   br_j, subtopic_results, research_doc, guide_results,
                   research_started, store_writes, br_result, batchOthers>>

\* gather has returned; one round of the loop over batch_results: the
\* result is appended, completed_topics is incremented and the progress is
\* written. After the last result the next batch is due.
ProcessResult(store_ok) ==
    /\ br_pc = "gather"
    /\ AllSettled
    /\ br_j < Len(batch_tasks)
    /\ subtopic_results' =
          Append(subtopic_results, SubtopicOutcome(batch_tasks[br_j + 1]))
    /\ completed_topics' = completed_topics + 1
    /\ research_doc' = UpdateProgress(research_doc, total_topics,
                                      completed_topics + 1, store_ok)
    /\ store_writes' = store_writes + 1
    /\ br_j' = br_j + 1
    /\ IF br_j + 1 = Len(batch_tasks)
       THEN /\ br_pc' = "batch"
            /\ br_i' = br_i + concurrency_limit
            /\ batch_tasks' = <<>>
       ELSE UNCHANGED <<br_pc, br_i, batch_tasks>>
    /\ UNCHANGED <<selected_topics, total_topics, guide_results,
                   research_started, research_settled, br_result, batchOthers>>

\* After the last batch: _store_subtopic_research_results (two update_one
\* calls in one try; an exception of the store is caught and printed), then
\* the completed outcome is returned. failing is the write that raises (0
\* when none does).
StoreAndReturn(failing) ==
    /\ br_pc = "batch"
    /\ br_i >= total_topics
    /\ research_doc' =
          IF failing = 1 THEN research_doc
          ELSE [research_doc EXCEPT !.subtopic_results = @ \o subtopic_results]
    /\ guide_results' =
          IF failing \in {1, 2} THEN guide_results
          ELSE guide_results \o subtopic_results
    /\ store_writes' = store_writes + (IF failing = 1 THEN 1 ELSE 2)
    /\ br_result' = [status |-> "completed",
                     subtopics_researched |-> completed_topics,
                     results |-> subtopic_results]
    /\ br_pc' = "done"
    /\ UNCHANGED <<selected_topics, total_topics, completed_topics, br_i,
                   batch_tasks, br_j, subtopic_results, research_started,
                   research_settled, batchOthers>>

BatchNext ==
    \/ \E topics \in TopicLists(MaxTopics), store_ok \in BOOLEAN :
          BatchCall(topics, store_ok)
    \/ BatchGather
    \/ \E k \in 1..concurrency_limit, state \in {"completed", "error"} :
          SubtopicSettle(k, state)
    \/ \E store_ok \in BOOLEAN : ProcessResult(store_ok)
    \/ \E failing \in 0..2 : StoreAndReturn(failing)

\* ------------------------------------------------------------------------
\* GrokDeepSearchService.search: parsing and repair of the reply
\* ------------------------------------------------------------------------

\* required_fields of search.
required_fields == {"summary", "key_points", "entities", "subtopics",
                    "timeline", "further_research", "references"}

\* The fields a reply may hold.
ReplyFields == required_fields \cup CanonicalFields

\* JSON values, written as their text: a string and an array.
JsonValues == {"'text'", "['x']"}

\* The JSON type of a value.
JsonType(v) == IF v = "'text'" \/ v = "''" THEN "string" ELSE "array"

\* The type the canonical record gives a field.
FieldType(f) == IF f = "summary" THEN "string" ELSE "array"

\* [] if field != "summary" else ""
JsonEmpty(field) == IF field # "summary" THEN "[]" ELSE "''"

\* The contents a provider may send: text that is not JSON, a JSON array,
\* and JSON objects holding any of the fields, each with a string or an
\* array as value.
NotJson == [kind |-> "text", data |-> <<>>]

JsonArray == [kind |-> "array", data |-> <<>>]

JsonObjects ==
    {[kind |-> "object", data |-> d] :
        d \in UNION {[fs -> JsonValues] : fs \in SUBSET ReplyFields}}

Contents == {NotJson, JsonArray} \cup JsonObjects

\* for field in required_fields:
\*     if field not in structured_data: structured_data[field] = ...
FillMissing(structured_data) ==
    [f \in DOMAIN structured_data \cup required_fields |->
        IF f \in DOMAIN structured_data THEN structured_data[f]
        ELSE JsonEmpty(f)]

\* json.loads and the loop over required_fields. Text that is not JSON
\* raises JSONDecodeError; on a value that is not an object the loop raises
\* TypeError (item assignment); both leave search as SearchError. An
\* object is returned with its missing required fields filled in and its
\* other fields as they came.
ParseAndValidate(content) ==
    IF content.kind = "object"
    THEN [raised |-> FALSE, data |-> FillMissing(content.data)]
    ELSE [raised |-> TRUE, data |-> <<>>]

NoSearchResult == [raised |-> FALSE, data |-> <<>>]

\* search is called and the provider's reply has the given content.
search(content) ==
    /\ gs_pc = "idle"
    /\ gs_content' = content
    /\ gs_result' = ParseAndValidate(content)
    /\ gs_pc' = "done"
    /\ UNCHANGED searchOthers

\* The caller has the outcome.
SearchDone ==
    /\ gs_pc = "done"
    /\ gs_pc' = "idle"
    /\ gs_content' = NotJson
    /\ gs_result' = NoSearchResult
    /\ UNCHANGED searchOthers

SearchNext ==
    \/ \E content \in Contents : search(content)
    \/ SearchDone

\* ------------------------------------------------------------------------
\* ResearchOrchestrator.run_research (research_chain.py)
\* ------------------------------------------------------------------------

\* search_tasks, in the order they are handed to asyncio.gather.
SearchTasks == <<"google_search", "grok_deepsearch">>

SearchNames == {SearchTasks[i] : i \in 1..Len(SearchTasks)}

\* guide_id as the caller gives it: none, or the id of a guide document the
\* caller inserted before (start_research inserts it with status
\* "initializing").
NoGuideId == ""

GivenGuideId == "given_guide_id"

\* str(result.inserted_id) of _create_guide_document.
InsertedGuideId == "inserted_guide_id"

GuideIdArgs == {NoGuideId, GivenGuideId}

\* self.results[...] of a search: None, the data of the live call, the data
\* of the cache, or the fallback built from the Google data.
NoData == "none"

\* The outcomes of the live call of a search (the HTTP exchange and the test
\* of the response).
LiveOutcomes == {"ok", "failed"}

\* The outcomes of _get_cached_google_search / _get_cached_grok_deepsearch:
\* a similar guide with a stored interaction, none, or find_one raising.
CacheOutcomes == {"hit", "miss", "error"}

\* A search coroutine: not created, running, or settled; the outcome of its
\* live call; the cache lookups it made and what the cache held when it
\* looked; whether its _log_interaction calls went through; its place in
\* the order in which the searches came to their end.
NoTask ==
    [state |-> "none", live |-> "none", lookups |-> 0, calls |-> 0,
     cache |-> "none", logs_ok |-> TRUE, rank |-> 0]

NoRunResult == [raised |-> FALSE, guide_id |-> NoGuideId, status |-> "",
                warnings |-> ""]

RunRaised == [raised |-> TRUE, guide_id |-> NoGuideId, status |-> "",
              warnings |-> ""]

\* The except branch of a search, entered with self.results as they are:
\* the cache lookup; on a hit the cached data replace the result and the
\* retrieval is logged; on a miss _run_grok_deepsearch builds a fallback
\* when the Google data are there, and otherwise (and always in
\* _run_google_search) the exception is raised again. _log_interaction is
\* an unguarded update_one: when it raises, the search raises.
CacheFallback(s, cache, log_ok, res) ==
    IF cache = "error" THEN [result |-> res[s], raised |-> TRUE]
    ELSE IF cache = "hit" THEN [result |-> "cached", raised |-> ~log_ok]
    ELSE IF s = "grok_deepsearch" /\ res["google_search"] # NoData
    THEN [result |-> "fallback", raised |-> ~log_ok]
    ELSE [result |-> res[s], raised |-> TRUE]

\* The body of a search after its live call has come back. The try block
\* holds the live call, the assignment of self.results[s] and the
\* _log_interaction of the success, so an exception of that last call lands
\* in the same except branch as a failure of the live call.
SearchOutcome(s, live, log_ok, cache, cache_log_ok, res) ==
    IF live = "ok" /\ log_ok
    THEN [result |-> "live", raised |-> FALSE, lookups |-> 0]
    ELSE LET after == IF live = "ok" THEN [res EXCEPT ![s] = "live"] ELSE res
             fb == CacheFallback(s, cache, cache_log_ok, after)
         IN [result |-> fb.result, raised |-> fb.raised, lookups |-> 1]

\* error_message after the loop over the results of gather: the first
\* exception in the order of search_tasks.
ErrorMessage(task) ==
    IF task["google_search"].state = "raised" THEN "Google Search error"
    ELSE IF task["grok_deepsearch"].state = "raised"
    THEN "Grok DeepSearch error"
    ELSE ""

StatusAlwaysError(res) == [status |-> "error", raises |-> TRUE]

\* if not self.results["google_search"] and not
\* self.results["grok_deepsearch"]: status "error" and raise; else
\* "paused_research".
StatusAfterSearches(res) ==
    IF res["google_search"] = NoData /\ res["grok_deepsearch"] = NoData
    THEN [status |-> "error", raises |-> TRUE]
    ELSE [status |-> "paused_research", raises |-> FALSE]

\* run_research up to its await of gather: the guide document is created
\* when no id was given (insert_one outside the try: its exception leaves
\* run_research at once), then both search coroutines are created and run.
run_research(guide_id, insert_ok) ==
    /\ rr_pc = "idle"
    /\ IF guide_id = NoGuideId /\ ~insert_ok
       THEN /\ rr_pc' = "raised"
            /\ rr_result' = RunRaised
            /\ rr_store_error' = TRUE
            /\ UNCHANGED <<rr_guide_id, rr_task, rr_status, rr_inserted>>
       ELSE /\ rr_pc' = "searching"
            /\ rr_guide_id' = IF guide_id = NoGuideId THEN InsertedGuideId
                              ELSE guide_id
            /\ rr_inserted' = IF guide_id = NoGuideId THEN rr_inserted + 1
                              ELSE rr_inserted
            /\ rr_status' = IF guide_id = NoGuideId THEN "researching"
                            ELSE "initializing"
            /\ rr_task' = [s \in SearchNames |->
                             [NoTask EXCEPT !.state = "running",
                                            !.calls = rr_task[s].calls + 1]]
            /\ UNCHANGED <<rr_result, rr_store_error>>
    /\ UNCHANGED <<rr_results, rr_combined, rr_stored>>
    /\ UNCHANGED runOthers

\* _run_google_search or _run_grok_deepsearch runs from the return of its
\* live call to its end
\* (no await on the way: the store calls are pymongo's blocking ones).
SearchSettle(s, live, log_ok, cache, cache_log_ok) ==
    /\ rr_pc = "searching"
    /\ rr_task[s].state = "running"
    /\ LET out == SearchOutcome(s, live, log_ok, cache, cache_log_ok,
                                rr_results)
       IN /\ rr_results' = [rr_results EXCEPT ![s] = out.result]
          /\ rr_task' = [rr_task EXCEPT
                 ![s] = [@ EXCEPT
                     !.state = IF out.raised THEN "raised" ELSE "returned",
                     !.live = live,
                     !.lookups = @ + out.lookups,
                     !.cache = IF out.lookups > 0 THEN cache ELSE "none",
                     !.logs_ok = IF live = "ok" THEN log_ok
                                 ELSE cache_log_ok,
                     !.rank = 1 + Cardinality(
                         {q \in SearchNames :
                             rr_task[q].state \in {"returned", "raised"}})]]
    /\ UNCHANGED <<rr_pc, rr_guide_id, rr_status, rr_inserted, rr_combined,
                   rr_stored, rr_store_error, rr_result>>
    /\ UNCHANGED runOthers

\* run_research after gather has returned: the results are combined and
\* stored in the research collection (_store_in_research_collection
\* swallows a store exception), the guide is updated with the research
\* (unguarded), the status is set and the call returns, or raises when both
\* results are empty or a store call raised. The except branch logs and
\* sets the status to "error" (both unguarded) and raises again.
RunFinish(research_ok, update_ok, status_ok, handler_ok) ==
    /\ rr_pc = "searching"
    /\ \A s \in SearchNames : rr_task[s].state \in {"returned", "raised"}
    /\ LET dec == StatusAfterSearches(rr_results)
           raised == ~update_ok \/ ~status_ok \/ dec.raises
           set == IF update_ok /\ status_ok THEN dec.status ELSE rr_status
       IN /\ rr_combined' = rr_combined + 1
          /\ rr_stored' = IF research_ok THEN rr_stored + 1 ELSE rr_stored
          /\ rr_status' = IF raised /\ handler_ok THEN "error" ELSE set
          /\ rr_store_error' = \/ rr_store_error
                               \/ ~research_ok
                               \/ ~update_ok
                               \/ ~status_ok
                               \/ (raised /\ ~handler_ok)
          /\ rr_result' = IF raised THEN RunRaised
                          ELSE [raised |-> FALSE,
                                guide_id |-> rr_guide_id,
                                status |-> "paused_research",
                                warnings |-> ErrorMessage(rr_task)]
          /\ rr_pc' = IF raised THEN "raised" ELSE "returned"
    /\ UNCHANGED <<rr_guide_id, rr_results, rr_task, rr_inserted>>
    /\ UNCHANGED runOthers

\* The caller has the outcome; the orchestrator object is dropped.
RunDone ==
    /\ rr_pc \in {"returned", "raised"}
    /\ rr_pc' = "idle"
    /\ rr_guide_id' = NoGuideId
    /\ rr_results' = [s \in SearchNames |-> NoData]
    /\ rr_task' = [s \in SearchNames |-> NoTask]
    /\ rr_status' = "none"
    /\ rr_inserted' = 0
    /\ rr_combined' = 0
    /\ rr_stored' = 0
    /\ rr_store_error' = FALSE
    /\ rr_result' = NoRunResult
    /\ UNCHANGED runOthers

RunNext ==
    \/ \E guide_id \in GuideIdArgs, insert_ok \in BOOLEAN :
          run_research(guide_id, insert_ok)
    \/ \E s \in SearchNames, live \in LiveOutcomes, cache \in CacheOutcomes,
          log_ok \in BOOLEAN, cache_log_ok \in BOOLEAN :
              SearchSettle(s, live, log_ok, cache, cache_log_ok)
    \/ \E research_ok \in BOOLEAN, update_ok \in BOOLEAN,
          status_ok \in BOOLEAN, handler_ok \in BOOLEAN :
              RunFinish(research_ok, update_ok, status_ok, handler_ok)
    \/ RunDone

\* ------------------------------------------------------------------------
\* start_research and validate_topic (backend/blueprints/research.py)
\* ------------------------------------------------------------------------

\* Longest topic of the requests, in words.
MaxWords == 4

\* Lengths of the words of a topic, in characters.
WordLengths == {1, 4, 10, 31, 50}

max_word_length == 30

\* The topic of a request: a string, given by the lengths of the words that
\* topic.strip().split() yields (none for an empty or blank string; the
\* words are one space apart) and by whether every character is one the
\* pattern of valid_chars_regex allows; or a JSON value that is no string,
\* falsy (0, [], null) or truthy (5, ["a"]).
WordSeqs == UNION {[1..n -> WordLengths] : n \in 0..MaxWords}

TopicArgs ==
    [type : {"str"}, words : WordSeqs, valid_chars : BOOLEAN]
        \cup [type : {"falsy", "truthy"}, words : {<<>>},
              valid_chars : {FALSE}]

RECURSIVE SumOf(_)
SumOf(ws) == IF ws = <<>> THEN 0 ELSE ws[1] + SumOf(Tail(ws))

\* len(trimmed_topic)
TrimmedLength(topic) ==
    IF topic.words = <<>> THEN 0
    ELSE SumOf(topic.words) + Len(topic.words) - 1

\* validate_topic: the error message, "" for None; raised when
\* topic.strip() is called on a value that has no such method.
validate_topic(topic) ==
    IF topic.type = "falsy" \/ (topic.type = "str" /\ topic.words = <<>>)
    THEN [raised |-> FALSE, error |-> "Topic cannot be empty"]
    ELSE IF topic.type = "truthy"
    THEN [raised |-> TRUE, error |-> ""]
    ELSE IF Len(topic.words) < 3
    THEN [raised |-> FALSE, error |-> "Topic too vague"]
    ELSE IF TrimmedLength(topic) > 100
    THEN [raised |-> FALSE, error |-> "Topic too long"]
    ELSE IF ~topic.valid_chars
    THEN [raised |-> FALSE, error |-> "Topic contains invalid characters"]
    ELSE IF TrimmedLength(topic) < 10
    THEN [raised |-> FALSE, error |-> "Topic too short"]
    ELSE IF \E k \in 1..Len(topic.words) :
                topic.words[k] > max_word_length
    THEN [raised |-> FALSE, error |-> "Word is too long"]
    ELSE [raised |-> FALSE, error |-> ""]

\* The body of a POST: no JSON object or one without 'topic', or one with a
\* topic.
NoTopic == [type |-> "falsy", words |-> <<>>, valid_chars |-> FALSE]

Requests ==
    [has_topic : {FALSE}, topic : {NoTopic}]
        \cup [has_topic : {TRUE}, topic : TopicArgs]

NoRequest == [has_topic |-> FALSE, topic |-> NoTopic]

NoResponse == [code |-> 0, error |-> "", status |-> ""]

Response(code, error, status) ==
    [code |-> code, error |-> error, status |-> status]

ValidationErrorIgnored(validation_error) == FALSE

\* if validation_error: return jsonify({"error": validation_error}), 400
ValidationErrorReturned(validation_error) == validation_error # ""

\* One request to POST /api/research/, handled from its arrival to its
\* response. The guide is inserted and
\* research_topic is run to its end inside the handler (a new event loop,
\* run_until_complete); insert_ok and research_ok say whether insert_one
\* and research_topic return or raise. An exception of validate_topic is
\* outside the try and leaves the handler (the framework answers 500).
start_research(request, insert_ok, research_ok) ==
    /\ sr_response = NoResponse
    /\ sr_request' = request
    /\ LET v == validate_topic(request.topic)
       IN IF ~request.has_topic
          THEN /\ sr_response' = Response(400, "Topic is required", "")
               /\ sr_inserted' = 0
               /\ sr_research_calls' = 0
          ELSE IF v.raised
          THEN /\ sr_response' = Response(500, "Internal Server Error", "")
               /\ sr_inserted' = 0
               /\ sr_research_calls' = 0
          ELSE IF ValidationErrorReturned(v.error)
          THEN /\ sr_response' = Response(400, v.error, "")
               /\ sr_inserted' = 0
               /\ sr_research_calls' = 0
          ELSE IF ~insert_ok
          THEN /\ sr_response' =
                     Response(500, "An error occurred during research", "")
               /\ sr_inserted' = 0
               /\ sr_research_calls' = 0
          ELSE /\ sr_inserted' = 1
               /\ sr_research_calls' = 1
               /\ sr_response' =
                     IF research_ok
                     THEN Response(201, "", "paused_research")
                     ELSE Response(500,
                                   "An error occurred during research", "")
    /\ UNCHANGED startOthers

\* The response has been sent; the route takes the next request.
StartDone ==
    /\ sr_response # NoResponse
    /\ sr_request' = NoRequest
    /\ sr_response' = NoResponse
    /\ sr_inserted' = 0
    /\ sr_research_calls' = 0
    /\ UNCHANGED startOthers

StartNext ==
    \/ /\ sr_response = NoResponse
       /\ \E request \in Requests, insert_ok \in BOOLEAN,
             research_ok \in BOOLEAN :
                 start_research(request, insert_ok, research_ok)
    \/ StartDone

\* ------------------------------------------------------------------------
\* MongoDBService.initialize and close (research_services.py)
\* ------------------------------------------------------------------------

\* Number of clients one service object constructs at most.
MaxClients == 3

\* The coroutines that share the service object.
Coroutines == {"t1", "t2", "t3"}

\* A connection string as mongo_connection.split('/') yields it, each part
\* as part.split('?') yields it: the MONGO_URI the repository falls back to,
\* 'mongodb://localhost:27017/ai_council', and one that names no database,
\* 'mongodb+srv://cluster0.example.net/?retryWrites=true'.
DefaultConnection ==
    <<<<"mongodb:">>, <<"">>, <<"localhost:27017">>, <<"ai_council">>>>

NoDatabaseConnection ==
    <<<<"mongodb+srv:">>, <<"">>, <<"cluster0.example.net">>,
      <<"", "retryWrites=true">>>>

MongoConnections == {DefaultConnection, NoDatabaseConnection}

\* db_name = mongo_connection.split('/')[-1].split('?')[0]
DbName(connection) == connection[Len(connection)][1]

\* if self.client is None:
ClientIsNone == client = Null

\* MongoDBService(config): a new service object.
MongoDBService(connection) ==
    /\ \A c \in Coroutines : init_pc[c] = "idle"
    /\ mongo_connection' = connection
    /\ client' = Null
    /\ db' = Null
    /\ research_collection' = Null
    /\ guide_collection' = Null
    /\ clients_created' = 0
    /\ UNCHANGED init_pc
    /\ UNCHANGED mongoOthers

\* A coroutine reaches its await self.initialize().
InitializeCall(c) ==
    /\ init_pc[c] = "idle"
    /\ init_pc' = [init_pc EXCEPT ![c] = "called"]
    /\ UNCHANGED <<mongo_connection, client, db, research_collection,
                   guide_collection, clients_created>>
    /\ UNCHANGED mongoOthers

\* The body of initialize. It has no await, so the event loop runs it from
\* its first line to its last without another coroutine in between. The
\* client is assigned before the database is looked up: self.client[db_name]
\* raises InvalidName on an empty name and leaves db and the collections
\* None.
initialize(c) ==
    /\ init_pc[c] = "called"
    /\ IF ClientIsNone
       THEN /\ clients_created' = clients_created + 1
            /\ client' = clients_created + 1
            /\ IF DbName(mongo_connection) = ""
               THEN /\ init_pc' = [init_pc EXCEPT ![c] = "raised"]
                    /\ UNCHANGED <<db, research_collection, guide_collection>>
               ELSE /\ db' = clients_created + 1
                    /\ research_collection' = clients_created + 1
                    /\ guide_collection' = clients_created + 1
                    /\ init_pc' = [init_pc EXCEPT ![c] = "done"]
       ELSE /\ init_pc' = [init_pc EXCEPT ![c] = "done"]
            /\ UNCHANGED <<client, db, research_collection, guide_collection,
                           clients_created>>
    /\ UNCHANGED mongo_connection
    /\ UNCHANGED mongoOthers

\* The caller goes on after its initialize call.
InitializeReturn(c) ==
    /\ init_pc[c] \in {"done", "raised"}
    /\ init_pc' = [init_pc EXCEPT ![c] = "idle"]
    /\ UNCHANGED <<mongo_connection, client, db, research_collection,
                   guide_collection, clients_created>>
    /\ UNCHANGED mongoOthers

\* close: if self.client: close it and set the four fields to None.
close ==
    /\ clients_created < MaxClients
    /\ IF client # Null
       THEN /\ client' = Null
            /\ db' = Null
            /\ research_collection' = Null
            /\ guide_collection' = Null
       ELSE UNCHANGED <<client, db, research_collection, guide_collection>>
    /\ UNCHANGED <<mongo_connection, init_pc, clients_created>>
    /\ UNCHANGED mongoOthers

MongoNext ==
    \/ \E connection \in MongoConnections : MongoDBService(connection)
    \/ \E c \in Coroutines : InitializeCall(c)
    \/ \E c \in Coroutines : initialize(c)
    \/ \E c \in Coroutines : InitializeReturn(c)
    \/ close

\* ------------------------------------------------------------------------
\* POST /subtopics/<guide_id> and GET /subtopics/<guide_id>/status
\* (backend/blueprints/research.py)
\* ------------------------------------------------------------------------

\* Number of stored subtopic results after which no new run is triggered.
MaxStored == 2

\* The threads that serve requests for the guide.
SubThreads == {"r1", "r2"}

\* selected_topics of a request: an empty list, entries with a topic name,
\* entries whose topic name is empty, or entries that are no objects (a list
\* of strings), on which topic_data.get raises AttributeError.
SelectedKinds == {"empty", "named", "unnamed", "malformed"}

\* The research document of the guide: absent, or as
\* initialize_research_document inserts it.
NoResearch ==
    [exists |-> FALSE, in_progress |-> FALSE, error |-> "", results |-> 0]

InitialResearch ==
    [exists |-> TRUE, in_progress |-> FALSE, error |-> "", results |-> 0]

IdleRequest == [pc |-> "idle", selected |-> "empty", code |-> 0, message |-> ""]

\* A background run: its position, the topics it was given, whether its
\* store went through and whether a run for the guide had died before its
\* end.
NoRun ==
    [pc |-> "none", selected |-> "empty", stored |-> FALSE,
     after_error |-> FALSE]

SubResponse(req, code, message) ==
    [req EXCEPT !.pc = "responded", !.code = code, !.message = message]

\* POST /initialize/<guide_id>: the research document is inserted when
\* there is none.
initialize_research_document ==
    /\ ~sub_research.exists
    /\ sub_research' = InitialResearch
    /\ UNCHANGED <<sub_request, sub_run, subOthers>>

\* research_selected_subtopics (the route) up to its test of
\* subtopic_research_in_progress: the reads. The thread answers at once
\* when nothing is selected, the guide or the research document is missing
\* or the flag it read is set; otherwise it goes on to the update_one.
SubtopicsCheck(r, selected, guide_found) ==
    /\ sub_request[r].pc = "idle"
    /\ sub_run[r].pc # "running"
    /\ sub_research.results < MaxStored
    /\ LET req == [sub_request[r] EXCEPT !.selected = selected]
       IN sub_request' = [sub_request EXCEPT ![r] =
            IF selected = "empty"
            THEN SubResponse(req, 400, "No topics selected")
            ELSE IF ~guide_found
            THEN SubResponse(req, 404, "Guide not found")
            ELSE IF ~sub_research.exists
            THEN SubResponse(req, 404, "Research not found for this guide")
            ELSE IF sub_research.in_progress
            THEN SubResponse(req, 200,
                             "Subtopic research is already in progress")
            ELSE [req EXCEPT !.pc = "checked"]]
    /\ UNCHANGED <<sub_research, sub_run, subOthers>>

\* The rest of the route: update_one sets subtopic_research_in_progress,
\* the background thread is started and the thread answers. When update_one
\* raises the route answers 500 and starts nothing.
SubtopicsTrigger(r, update_ok) ==
    /\ sub_request[r].pc = "checked"
    /\ IF update_ok
       THEN /\ sub_research' = [sub_research EXCEPT !.in_progress = TRUE]
            /\ sub_run' = [sub_run EXCEPT ![r] =
                    [NoRun EXCEPT !.pc = "running",
                                  !.selected = sub_request[r].selected]]
            /\ sub_request' = [sub_request EXCEPT ![r] =
                    SubResponse(@, 200, "Subtopic research triggered")]
       ELSE /\ sub_request' = [sub_request EXCEPT ![r] =
                    SubResponse(@, 500, "error")]
            /\ UNCHANGED <<sub_research, sub_run>>
    /\ UNCHANGED subOthers

\* The response has been sent.
SubtopicsDone(r) ==
    /\ sub_request[r].pc = "responded"
    /\ sub_request' = [sub_request EXCEPT ![r] = IdleRequest]
    /\ UNCHANGED <<sub_research, sub_run, subOthers>>

\* _store_subtopic_research_results on the research document: one
\* update_one pushes the results and clears the flag.
StoreSubtopicResults(research, count) ==
    [research EXCEPT !.in_progress = FALSE, !.results = @ + count]

\* start_subtopic_research runs to its end in the background thread.
\* ResearchOrchestrator.research_selected_subtopics returns after
\* _store_subtopic_research_results, which swallows the exception of its
\* update_one (store_ok is whether that update went through); entries
\* without a topic name give no result. When the orchestrator cannot be
\* constructed or an entry is no object the call raises: the except branch
\* starts with current_app.logger.error, which raises RuntimeError in a
\* thread that has no application context, so its update_one (flag False,
\* subtopic_research_error) is not reached.
RunEnd(r, construct_ok, store_ok) ==
    /\ sub_run[r].pc = "running"
    /\ IF ~construct_ok \/ sub_run[r].selected = "malformed"
       THEN /\ sub_run' = [sub_run EXCEPT ![r].pc = "died"]
            /\ UNCHANGED sub_research
       ELSE /\ sub_run' = [sub_run EXCEPT
                    ![r].pc = "completed",
                    ![r].stored = store_ok,
                    ![r].after_error =
                        \E q \in SubThreads : sub_run[q].pc = "died"]
            /\ sub_research' =
                  IF store_ok /\ sub_research.exists
                  THEN StoreSubtopicResults(sub_research,
                          IF sub_run[r].selected = "named" THEN 1 ELSE 0)
                  ELSE sub_research
    /\ UNCHANGED <<sub_request, subOthers>>

StatusWithoutResults(research) ==
    IF research.in_progress THEN "in_progress"
    ELSE IF research.error # "" THEN "error"
    ELSE "not_started"

\* get_subtopic_research_status: the status the endpoint reports for the
\* research document.
get_subtopic_research_status(research) ==
    IF research.in_progress THEN "in_progress"
    ELSE IF research.error # "" THEN "error"
    ELSE IF research.results > 0 THEN "completed"
    ELSE "not_started"

SubNext ==
    \/ initialize_research_document
    \/ \E r \in SubThreads, selected \in SelectedKinds,
          guide_found \in BOOLEAN : SubtopicsCheck(r, selected, guide_found)
    \/ \E r \in SubThreads, update_ok \in BOOLEAN :
          SubtopicsTrigger(r, update_ok)
    \/ \E r \in SubThreads : SubtopicsDone(r)
    \/ \E r \in SubThreads, construct_ok \in BOOLEAN, store_ok \in BOOLEAN :
          RunEnd(r, construct_ok, store_ok)

\* ------------------------------------------------------------------------
\* create_research and get_research_results_api (app.py)
\* ------------------------------------------------------------------------

\* Number of guides the store holds.
MaxApiGuides == 2

ApiGuideIds == 1..MaxApiGuides

\* A guide document of the guides collection: absent, or with the status
\* and the trees that store_research has set ("trees" is set only by a
\* store_research whose research has the key).
NoGuideDoc == [exists |-> FALSE, status |-> "", has_trees |-> FALSE, trees |-> {}]

NoApiResult == [returned |-> FALSE, trees |-> {}]

NoApiResponse == [code |-> 0, guide_id |-> Null]

NoApiGet == [guide_id |-> Null, code |-> 0, status |-> "", trees |-> {}]

\* store_research(research, guide_id) on a guide document: $set of topic,
\* status (research.get("status", "completed")) and, when the research has
\* them, the trees.
store_research(doc, status, has_trees, research_trees) ==
    [exists |-> TRUE,
     status |-> status,
     has_trees |-> doc.has_trees \/ has_trees,
     trees |-> IF has_trees THEN research_trees ELSE doc.trees]

\* create_research up to its await of conduct_research: a body without a
\* topic is answered 400; the session is stored with status "initializing"
\* (insert_one gives it a new id). An exception of store_research leaves
\* the handler, which has no try.
CreateSession(body_ok, store_ok) ==
    /\ api_pc = "idle"
    /\ \E g \in ApiGuideIds : ~api_guides[g].exists
    /\ LET g == CHOOSE g \in ApiGuideIds :
                  /\ ~api_guides[g].exists
                  /\ \A h \in ApiGuideIds : ~api_guides[h].exists => g <= h
       IN IF ~body_ok
          THEN /\ api_response' = [code |-> 400, guide_id |-> Null]
               /\ api_pc' = "done"
               /\ UNCHANGED <<api_guides, api_session>>
          ELSE IF ~store_ok
          THEN /\ api_response' = [code |-> 500, guide_id |-> Null]
               /\ api_pc' = "done"
               /\ UNCHANGED <<api_guides, api_session>>
          ELSE /\ api_guides' = [api_guides EXCEPT ![g] =
                      store_research(@, "initializing", FALSE, {})]
               /\ api_session' = g
               /\ api_pc' = "researching"
               /\ UNCHANGED api_response
    /\ UNCHANGED <<api_result, api_get, apiOthers>>

\* council.conduct_research returns the trees of the enabled members, or
\* raises (a member's adapter cannot be built), which leaves the handler.
CreateConduct(raises, enabled) ==
    /\ api_pc = "researching"
    /\ IF raises
       THEN /\ api_response' = [code |-> 500, guide_id |-> Null]
            /\ api_pc' = "done"
            /\ UNCHANGED api_result
       ELSE /\ api_result' = [returned |-> TRUE, trees |-> enabled]
            /\ api_pc' = "storing"
            /\ UNCHANGED api_response
    /\ UNCHANGED <<api_guides, api_session, api_get, apiOthers>>

\* The second store_research: the result has no "status" key, so the guide
\* becomes "completed" with the trees. Then the guide id is returned.
CreateStoreResults(store_ok) ==
    /\ api_pc = "storing"
    /\ IF store_ok
       THEN /\ api_guides' = [api_guides EXCEPT ![api_session] =
                   store_research(@, "completed", TRUE, api_result.trees)]
            /\ api_response' = [code |-> 200, guide_id |-> api_session]
       ELSE /\ api_response' = [code |-> 500, guide_id |-> Null]
            /\ UNCHANGED api_guides
    /\ api_pc' = "done"
    /\ UNCHANGED <<api_session, api_result, api_get, apiOthers>>

\* The response has been sent.
CreateDone ==
    /\ api_pc = "done"
    /\ api_pc' = "idle"
    /\ api_session' = Null
    /\ api_result' = NoApiResult
    /\ api_response' = NoApiResponse
    /\ UNCHANGED <<api_guides, api_get, apiOthers>>

NoResults == [found |-> FALSE, status |-> "", trees |-> {}]

\* MongoDBService.get_research_results: None without a guide, else a dict
\* of the guide's status and trees (guide.get("trees", {})).
get_research_results(doc) ==
    IF ~doc.exists THEN NoResults
    ELSE [found |-> TRUE, status |-> doc.status, trees |-> doc.trees]

\* get_research_results_api: 404 without a guide; "initializing" when
\* get_research_results gave nothing (not results), else "completed" with
\* results.get("trees", {}).
get_research_results_api(g, doc) ==
    LET found == get_research_results(doc)
    IN IF ~doc.exists
       THEN [guide_id |-> g, code |-> 404, status |-> "", trees |-> {}]
       ELSE IF ~found.found
       THEN [guide_id |-> g, code |-> 200, status |-> "initializing",
             trees |-> {}]
       ELSE [guide_id |-> g, code |-> 200, status |-> "completed",
             trees |-> found.trees]

\* GET /api/research/results/<guide_id>, at any time.
GetResults(g) ==
    /\ api_get' = get_research_results_api(g, api_guides[g])
    /\ api_get' # api_get
    /\ UNCHANGED <<api_guides, api_pc, api_session, api_result,
                   api_response, apiOthers>>

ApiNext ==
    \/ \E body_ok \in BOOLEAN, store_ok \in BOOLEAN :
          CreateSession(body_ok, store_ok)
    \/ \E raises \in BOOLEAN, enabled \in SUBSET TreeProviders :
          CreateConduct(raises, enabled)
    \/ \E store_ok \in BOOLEAN : CreateStoreResults(store_ok)
    \/ CreateDone
    \/ \E g \in ApiGuideIds : GetResults(g)

\* ------------------------------------------------------------------------
\* approve_research (backend/blueprints/research.py), on the guide that
\* run_research works on
\* ------------------------------------------------------------------------

\* The threads that serve POST /approve/<guide_id>.
ApproveThreads == {"a1", "a2"}

NoApproveResponse == 0

ApproveAlways(status) == TRUE

\* if guide.get("status") != "paused_research": 400.
ApproveAllowed(status) == status = "paused_research"

\* approve_research up to its test of the status: find_one and the test.
\* 500 when find_one raises, 404 without a guide, 400 when the guide is not
\* awaiting approval; otherwise the thread goes on to its update_one.
ApproveRead(t, find_ok) ==
    /\ ap_pc[t] = "idle"
    /\ IF ~find_ok
       THEN /\ ap_pc' = [ap_pc EXCEPT ![t] = "done"]
            /\ ap_response' = [ap_response EXCEPT ![t] = 500]
       ELSE IF rr_status = "none"
       THEN /\ ap_pc' = [ap_pc EXCEPT ![t] = "done"]
            /\ ap_response' = [ap_response EXCEPT ![t] = 404]
       ELSE IF ~ApproveAllowed(rr_status)
       THEN /\ ap_pc' = [ap_pc EXCEPT ![t] = "done"]
            /\ ap_response' = [ap_response EXCEPT ![t] = 400]
       ELSE /\ ap_pc' = [ap_pc EXCEPT ![t] = "read"]
            /\ UNCHANGED ap_response
    /\ UNCHANGED <<runVars, approveOthers>>

\* update_one({"_id": ...}, {"$set": {"status": "paused_outline", ...}})
\* and the answer; 500 when update_one raises.
ApproveWrite(t, update_ok) ==
    /\ ap_pc[t] = "read"
    /\ ap_pc' = [ap_pc EXCEPT ![t] = "done"]
    /\ IF update_ok
       THEN /\ rr_status' = IF rr_status = "none" THEN rr_status
                            ELSE "paused_outline"
            /\ ap_response' = [ap_response EXCEPT ![t] = 200]
       ELSE /\ ap_response' = [ap_response EXCEPT ![t] = 500]
            /\ UNCHANGED rr_status
    /\ UNCHANGED <<rr_pc, rr_guide_id, rr_results, rr_task, rr_inserted,
                   rr_combined, rr_stored, rr_store_error, rr_result>>
    /\ UNCHANGED approveOthers

\* The response has been sent.
ApproveDone(t) ==
    /\ ap_pc[t] = "done"
    /\ ap_pc' = [ap_pc EXCEPT ![t] = "idle"]
    /\ ap_response' = [ap_response EXCEPT ![t] = NoApproveResponse]
    /\ UNCHANGED <<runVars, approveOthers>>

\* run_research for one guide at a time together with the approval
\* requests for that guide; the next guide is taken up when no request for
\* the present one is under way.
ApproveNext ==
    \/ \E guide_id \in GuideIdArgs, insert_ok \in BOOLEAN :
          run_research(guide_id, insert_ok)
    \/ \E s \in SearchNames, live \in LiveOutcomes, cache \in CacheOutcomes,
          log_ok \in BOOLEAN, cache_log_ok \in BOOLEAN :
              SearchSettle(s, live, log_ok, cache, cache_log_ok)
    \/ \E research_ok \in BOOLEAN, update_ok \in BOOLEAN,
          status_ok \in BOOLEAN, handler_ok \in BOOLEAN :
              RunFinish(research_ok, update_ok, status_ok, handler_ok)
    \/ (\A t \in ApproveThreads : ap_pc[t] = "idle") /\ RunDone
    \/ \E t \in ApproveThreads, find_ok \in BOOLEAN : ApproveRead(t, find_ok)
    \/ \E t \in ApproveThreads, update_ok \in BOOLEAN :
          ApproveWrite(t, update_ok)
    \/ \E t \in ApproveThreads : ApproveDone(t)

\* ------------------------------------------------------------------------
\* Specifications
\* ------------------------------------------------------------------------

\* The state after construction: AICouncil.__init__ (only grok enabled), no
\* conduct_research in progress, an empty guides collection, no
\* add_subtopic_node call, a research document as initialize_research
\* leaves it and no research_selected_subtopics call.
Init ==
    /\ members = [n \in Providers |-> n = "grok"]
    /\ cr_pc = "idle"
    /\ cr_topic = ""
    /\ cr_session = Null
    /\ invoked_enabled = {}
    /\ enabled_members = <<>>
    /\ results = <<>>
    /\ trees = NoTrees
    /\ last_error = ""
    /\ cr_out_of_order = FALSE
    /\ cr_members_changed = FALSE
    /\ guides = [g \in GuideIds |-> Absent]
    /\ call = [c \in Callers |-> IdleCall]
    /\ next_id = FirstNodeId
    /\ br_pc = "idle"
    /\ selected_topics = <<>>
    /\ total_topics = 0
    /\ completed_topics = 0
    /\ br_i = 0
    /\ batch_tasks = <<>>
    /\ br_j = 0
    /\ subtopic_results = <<>>
    /\ research_doc = [progress |-> InitialProgress, subtopic_results |-> <<>>]
    /\ guide_results = <<>>
    /\ research_started = 0
    /\ research_settled = 0
    /\ store_writes = 0
    /\ br_result = NoResult
    /\ gs_pc = "idle"
    /\ gs_content = NotJson
    /\ gs_result = NoSearchResult
    /\ rr_pc = "idle"
    /\ rr_guide_id = NoGuideId
    /\ rr_results = [s \in SearchNames |-> NoData]
    /\ rr_task = [s \in SearchNames |-> NoTask]
    /\ rr_status = "none"
    /\ rr_inserted = 0
    /\ rr_combined = 0
    /\ rr_stored = 0
    /\ rr_store_error = FALSE
    /\ rr_result = NoRunResult
    /\ sr_request = NoRequest
    /\ sr_response = NoResponse
    /\ sr_inserted = 0
    /\ sr_research_calls = 0
    /\ mongo_connection = DefaultConnection
    /\ client = Null
    /\ db = Null
    /\ research_collection = Null
    /\ guide_collection = Null
    /\ init_pc = [c \in Coroutines |-> "idle"]
    /\ clients_created = 0
    /\ sub_research = NoResearch
    /\ sub_request = [r \in SubThreads |-> IdleRequest]
    /\ sub_run = [r \in SubThreads |-> NoRun]
    /\ api_guides = [g \in ApiGuideIds |-> NoGuideDoc]
    /\ api_pc = "idle"
    /\ api_session = Null
    /\ api_result = NoApiResult
    /\ api_response = NoApiResponse
    /\ api_get = NoApiGet
    /\ ap_pc = [t \in ApproveThreads |-> "idle"]
    /\ ap_response = [t \in ApproveThreads |-> NoApproveResponse]

\* The council alone: enablement calls and one conduct_research at a time.
SpecCouncil == Init /\ [][CouncilNext]_vars

\* A provider whose call may never reply.
SilentProvider == "grok"

\* The call of provider p settles (it returns or raises).
ReplyOf(p) ==
    \E i \in 1..Len(MemberOrder) :
        \/ TaskSettle(i, Raised(p))
        \/ \E missing \in MissingChoices : TaskSettle(i, Returned(p, missing))

\* The council with the progress the event loop and the providers give: the
\* steps of conduct_research itself are taken when they can be, and every
\* provider other than SilentProvider replies in the end. Nothing in
\* AICouncilMember.research or conduct_research bounds the wait for a reply
\* (ResearchConfig.research_timeout is read nowhere), so the model has no
\* timeout step to be fair to.
SpecCouncilFair ==
    /\ Init
    /\ [][CouncilNext]_vars
    /\ WF_vars(ConductFinish)
    /\ WF_vars(ConductDone)
    /\ \A p \in Providers \ {SilentProvider} : WF_vars(ReplyOf(p))

\* The guide store alone, its requests served one at a time.
SpecTree == Init /\ [][TreeNextSequential]_vars

\* The guide store with overlapping add_subtopic_node calls.
SpecTreeConcurrent == Init /\ [][TreeNextConcurrent]_vars

\* One call of research_selected_subtopics.
SpecBatch == Init /\ [][BatchNext]_vars

\* Calls of GrokDeepSearchService.search, one at a time.
SpecSearch == Init /\ [][SearchNext]_vars

\* One run_research call at a time, its two searches settling in any order.
SpecRun == Init /\ [][RunNext]_vars

\* Requests to POST /api/research/, handled one at a time.
SpecStart == Init /\ [][StartNext]_vars

\* One MongoDBService shared by the coroutines of an event loop.
SpecMongo == Init /\ [][MongoNext]_vars

\* The subtopic route served by two threads, and the background runs.
SpecSubtopics == Init /\ [][SubNext]_vars

\* POST /api/research requests one at a time, with GET requests for the
\* results in between.
SpecApi == Init /\ [][ApiNext]_vars

\* run_research and the approval requests for its guide.
SpecApprove == Init /\ [][ApproveNext]_vars

\* The same with the progress the threads make: a request that has passed
\* the check goes on to its update, and a background run comes to its end.
SpecSubtopicsFair ==
    /\ Init
    /\ [][SubNext]_vars
    /\ \A r \in SubThreads :
          /\ WF_vars(\E update_ok \in BOOLEAN : SubtopicsTrigger(r, update_ok))
          /\ WF_vars(\E construct_ok \in BOOLEAN, store_ok \in BOOLEAN :
                        RunEnd(r, construct_ok, store_ok))

\* ------------------------------------------------------------------------
\* Properties of conduct_research
\* ------------------------------------------------------------------------

\* C1: whichever providers fail (construction of the adapter included), an
\* invocation of conduct_research ends by returning trees whose key set is
\* exactly the set of providers enabled when it was invoked.
C1_TreesKeysAreEnabled ==
    cr_pc \in {"returned", "raised"} =>
        /\ cr_pc = "returned"
        /\ DOMAIN trees = invoked_enabled

\* C2: the failure of one provider's research call neither fails nor cancels
\* the invocation: conduct_research raises only before any task was created,
\* a task still pending beside a failed one can settle, and every provider
\* whose own call returned has that result under its own key in the trees.
C2_FailureIsolation ==
    /\ cr_pc = "raised" => results = <<>>
    /\ cr_pc = "gather" =>
          \A i \in 1..Len(results) :
              results[i].kind = "pending" =>
                  ENABLED TaskSettle(i, Returned(enabled_members[i], {}))
    /\ cr_pc = "returned" =>
          \A i \in 1..Len(results) :
              results[i].kind = "ok" =>
                  /\ results[i].ai_name \in DOMAIN trees
                  /\ trees[results[i].ai_name].research = results[i].result

\* Witness of C2: an invocation returned in which one call failed and
\* another succeeded and has its own result in the trees.
C2_Witness ==
    /\ cr_pc = "returned"
    /\ \E i, j \in 1..Len(results) :
          /\ results[i].kind = "exc"
          /\ results[j].kind = "ok"
          /\ trees[results[j].ai_name].research.summary = results[j].ai_name

\* C3: every node of the returned trees, of a failed provider and of a
\* successful one alike, has a research record with all seven canonical
\* fields present.
C3_AllSevenFields ==
    cr_pc = "returned" =>
        \A p \in DOMAIN trees : DOMAIN trees[p].research = CanonicalFields

\* C4: the node of every provider whose call failed has status completed,
\* the requested topic, no children and a research record each of whose
\* fields holds the empty value; the node of every provider whose call
\* succeeded holds the result of that provider's call.
C4_FailedProviderNode ==
    cr_pc = "returned" =>
        \A i \in 1..Len(results) :
            LET p == results[i].ai_name IN
            /\ p \in DOMAIN trees
            /\ results[i].kind = "exc" =>
                  /\ trees[p].status = "completed"
                  /\ trees[p].topic = cr_topic
                  /\ trees[p].children = <<>>
                  /\ DOMAIN trees[p].research # {}
                  /\ \A f \in DOMAIN trees[p].research :
                         trees[p].research[f] = EmptyValue(f)
            /\ results[i].kind = "ok" =>
                  /\ trees[p].status = "completed"
                  /\ trees[p].research = ResearchReply(p, LLMFields \ DOMAIN trees[p].research)

\* Witness of C4: four providers enabled, one failed and its node is empty,
\* the three others returned a summary.
C4_Witness ==
    /\ cr_pc = "returned"
    /\ DOMAIN trees = Providers
    /\ \E p \in Providers :
          /\ trees[p].research.summary = ""
          /\ trees[p].topic \in Topics
          /\ \A q \in Providers \ {p} : trees[q].research.summary = q

\* C11: an invocation in which the call of every enabled provider failed
\* ends with a failure raised to the caller, not with a trees result; one in
\* which at least one call succeeded ends with a result, not a failure.
C11_AllFailedIsHardFailure ==
    (cr_pc \in {"returned", "raised"} /\ results # <<>>) =>
        IF \A i \in 1..Len(results) : results[i].kind = "exc"
        THEN cr_pc = "raised"
        ELSE cr_pc = "returned"

\* C12: conduct_research always terminates: an invocation waiting for its
\* provider calls ends (it returns or raises), also when the call of one
\* provider never replies.
C12_ConductTerminates == (cr_pc = "gather") ~> (cr_pc \in {"returned", "raised"})

\* C13: in whatever order the calls settled, the node under the key of the
\* provider listed i-th is built from the outcome of that provider's own
\* call: its result when the call returned, the empty record when it raised.
C13_OwnResultUnderOwnKey ==
    cr_pc = "returned" =>
        \A i \in 1..Len(results) :
            LET p == enabled_members[i] IN
            /\ p \in DOMAIN trees
            /\ results[i].ai_name = p
            /\ results[i].kind = "ok" =>
                  /\ trees[p].research = results[i].result
                  /\ trees[p].research.summary = p
                  /\ trees[p].research.web_results = <<p>>
            /\ results[i].kind = "exc" => trees[p].research.summary = ""

\* Witness of C13: an invocation with three or more providers returned after
\* a call settled before one listed ahead of it, with calls that returned
\* and a call that raised.
C13_Witness ==
    /\ cr_pc = "returned"
    /\ cr_out_of_order
    /\ Len(results) >= 3
    /\ results[1].kind = "ok"
    /\ results[Len(results)].kind = "exc"
    /\ trees[enabled_members[1]].research.summary = enabled_members[1]
    /\ trees[enabled_members[2]].research.summary \in {"", enabled_members[2]}

\* C14: the keys of the returned trees are the providers that were enabled
\* when conduct_research was invoked, whatever enable_member, disable_member
\* and enablement rewrites did while the calls were in flight.
C14_KeysAreInvocationSnapshot ==
    cr_pc = "returned" => DOMAIN trees = invoked_enabled

\* Witness of C14: an invocation returned after the enablement was changed
\* during its calls; a provider enabled at the invocation is disabled now
\* and one disabled then is enabled now, and the keys are those of the
\* invocation.
C14_Witness ==
    /\ cr_pc = "returned"
    /\ cr_members_changed
    /\ invoked_enabled \ EnabledSet(members) # {}
    /\ EnabledSet(members) \ invoked_enabled # {}
    /\ DOMAIN trees = invoked_enabled

\* C15: when a session_id was supplied, every root node of the returned
\* trees has it as node_id.
C15_RootNodeIdIsSession ==
    (cr_pc = "returned" /\ cr_session # Null) =>
        \A p \in DOMAIN trees : trees[p].node_id = cr_session

\* Witness of C15: an invocation with a session_id returned trees holding
\* the node of a provider whose call returned and of one whose call raised.
C15_Witness ==
    /\ cr_pc = "returned"
    /\ cr_session # Null
    /\ \E p, q \in DOMAIN trees :
          /\ trees[p].research.summary = p
          /\ trees[q].research.summary = ""
          /\ trees[p].node_id = cr_session
          /\ trees[q].node_id = cr_session

\* C16: the keys of members are the four fixed names in every state, and
\* enable_member and disable_member with another name fail with an error
\* and leave the enablement of every provider as it was.
C16_UnknownMemberRejected ==
    /\ [](DOMAIN members = Providers /\ Cardinality(Providers) = 4)
    /\ [][\A name \in UnknownNames :
             (enable_member(name) \/ disable_member(name)) =>
                 /\ last_error' = "Unknown member"
                 /\ members' = members]_vars

\* Witness of C16: a call with an unknown name has just failed in a council
\* whose enablement is not the initial one.
C16_Witness ==
    /\ last_error = "Unknown member"
    /\ EnabledSet(members) = {"claude", "gemini"}
    /\ DOMAIN members = Providers

\* C17: whatever the provider's reply holds, its normalisation does not
\* raise and yields a record with each of the seven canonical fields
\* present and of the field's type, holding the empty value where the reply
\* had the field missing or of another type.
C17_NormalizeCanonical ==
    gs_pc = "done" =>
        /\ ~gs_result.raised
        /\ CanonicalFields \subseteq DOMAIN gs_result.data
        /\ \A f \in CanonicalFields :
               /\ JsonType(gs_result.data[f]) = FieldType(f)
               /\ (\/ f \notin DOMAIN gs_content.data
                   \/ JsonType(gs_content.data[f]) # FieldType(f))
                      => gs_result.data[f] = JsonEmpty(f)

\* ------------------------------------------------------------------------
\* Properties of add_subtopic_node
\* ------------------------------------------------------------------------

\* The depth of the first node with the given node_id (0 for the root), -1
\* when the tree has no such node.
RECURSIVE DepthOf(_, _)
DepthOf(node, node_id) ==
    IF NodeId(node) = node_id THEN 0
    ELSE LET kids == Children(node)
             below == {DepthOf(kids[i], node_id) : i \in 1..Len(kids)} \ {-1}
         IN  IF below = {} THEN -1
             ELSE 1 + (CHOOSE d \in below : \A e \in below : d <= e)

\* A node without its subtrees: its id, its own fields and the ids of its
\* children in order.
NodeView(node) ==
    <<NodeId(node),
      [f \in DOMAIN node \ {"children"} |-> node[f]],
      [i \in 1..Len(Children(node)) |-> NodeId(Children(node)[i])]>>

\* The views of all nodes of a tree.
RECURSIVE Flat(_)
Flat(node) ==
    {NodeView(node)} \cup
    UNION {Flat(Children(node)[i]) : i \in 1..Len(Children(node))}

\* The step in which the add_subtopic_node call of c returns.
Completes(c) == call[c].pc # "done" /\ call'[c].pc = "done"

\* The stored guide of c's call has a tree for the ai, and the tree has a
\* node whose node_id is parent_node_id.
ParentInTree(c) ==
    /\ HasTree(guides[call[c].guide_id], call[c].ai)
    /\ DepthOf(guides[call[c].guide_id].trees[call[c].ai],
               call[c].parent_node_id) >= 0

\* C5: when the ai's stored tree has a node whose node_id is
\* parent_node_id, at the root or at any depth, add_subtopic_node returns
\* True and in the stored tree the new node is the last child of that node.
C5_AttachUnderParent ==
    [][\A c \in Callers :
          (Completes(c) /\ ParentInTree(c)) =>
              LET k == call[c]
                  parent == find_node_by_id(guides'[k.guide_id].trees[k.ai],
                                            k.parent_node_id)
              IN  /\ call'[c].ret = TRUE
                  /\ Children(parent) # <<>>
                  /\ Children(parent)[Len(Children(parent))] = k.new_node]_vars

\* Witness of C5: a call returned True after attaching its node under a
\* parent at depth 3 (the new node is at depth 4), in a tree grown by
\* attachments under the root and at depth 1.
C5_Witness ==
    \E c \in Callers :
        /\ call[c].pc = "done"
        /\ call[c].ret = TRUE
        /\ LET tree == guides[call[c].guide_id].trees[call[c].ai] IN
           /\ DepthOf(tree, call[c].parent_node_id) = 3
           /\ DepthOf(tree, call[c].new_node.node_id) = 4
           /\ Len(tree.children) >= 1

\* C6: when the guide, its trees or the ai's tree is missing, or no node of
\* the ai's tree has node_id equal to parent_node_id, add_subtopic_node
\* returns False and the stored guide document is unchanged.
C6_MissingParentNoChange ==
    [][\A c \in Callers :
          (Completes(c) /\ ~ParentInTree(c)) =>
              /\ call'[c].ret = FALSE
              /\ guides' = guides]_vars

\* C7: a successful attach under a node at depth 2 makes that node's
\* children one longer and changes nothing else: every other node of the
\* tree, every other provider's tree and the rest of the guide are as
\* before.
C7_AttachFrame ==
    [][\A c \in Callers :
          LET k == call[c]
              doc == guides[k.guide_id]
          IN (/\ Completes(c)
              /\ call'[c].ret = TRUE
              /\ HasTree(doc, k.ai)
              /\ DepthOf(doc.trees[k.ai], k.parent_node_id) = 2) =>
                 LET doc2 == guides'[k.guide_id]
                     before == find_node_by_id(doc.trees[k.ai], k.parent_node_id)
                     after == find_node_by_id(doc2.trees[k.ai], k.parent_node_id)
                 IN  /\ Len(Children(after)) = Len(Children(before)) + 1
                     /\ NodeView(after)[2] = NodeView(before)[2]
                     /\ NodeView(after)[3] =
                            Append(NodeView(before)[3], k.new_node.node_id)
                     /\ Flat(doc2.trees[k.ai]) \ {NodeView(after)} =
                            (Flat(doc.trees[k.ai]) \ {NodeView(before)})
                                \cup {NodeView(k.new_node)}
                     /\ DOMAIN doc2.trees = DOMAIN doc.trees
                     /\ \A a \in DOMAIN doc.trees \ {k.ai} :
                            doc2.trees[a] = doc.trees[a]
                     /\ doc2.status = doc.status
                     /\ \A g \in GuideIds \ {k.guide_id} : guides'[g] = guides[g]]_vars

\* Witness of C7: a call returned True for a parent at depth 2 that already
\* had a child, in a guide that also holds another provider's tree.
C7_Witness ==
    \E c \in Callers :
        /\ call[c].pc = "done"
        /\ call[c].ret = TRUE
        /\ LET doc == guides[call[c].guide_id]
               tree == doc.trees[call[c].ai]
           IN  /\ DepthOf(tree, call[c].parent_node_id) = 2
               /\ Len(Children(find_node_by_id(tree, call[c].parent_node_id))) = 2
               /\ DOMAIN doc.trees = TreeProviders

\* The parent-child links of a tree: the pairs of a node's node_id and the
\* node_id of one of its children.
RECURSIVE ChildPairs(_)
ChildPairs(node) ==
    {<<NodeId(node), NodeId(Children(node)[i])>> : i \in 1..Len(Children(node))}
    \cup UNION {ChildPairs(Children(node)[i]) : i \in 1..Len(Children(node))}

\* The links persisted for a provider in a guide document.
PersistedPairs(doc, ai) ==
    IF HasTree(doc, ai) THEN ChildPairs(doc.trees[ai]) ELSE {}

\* C18: children are never removed from the persisted guide: in every step,
\* whichever operation takes it, every child persisted under a node of a
\* provider's tree is still a child of that node.
C18_ChildrenOnlyGrow ==
    [][\A g \in GuideIds, ai \in TreeProviders :
          PersistedPairs(guides[g], ai) \subseteq PersistedPairs(guides'[g], ai)]_vars

\* The number of nodes of a tree and the set of their node_ids.
RECURSIVE NodeCount(_)
RECURSIVE CountAll(_)
NodeCount(node) == 1 + CountAll(Children(node))

CountAll(kids) ==
    IF kids = <<>> THEN 0 ELSE NodeCount(Head(kids)) + CountAll(Tail(kids))

RECURSIVE IdsOf(_)
IdsOf(node) ==
    {NodeId(node)} \cup UNION {IdsOf(Children(node)[i]) : i \in 1..Len(Children(node))}

\* C19: in every persisted tree no two nodes have the same node_id.
C19_NodeIdsUnique ==
    \A g \in GuideIds, ai \in TreeProviders :
        HasTree(guides[g], ai) =>
            Cardinality(IdsOf(guides[g].trees[ai])) = NodeCount(guides[g].trees[ai])

\* Witness of C19: a tree stored by a top-level research (its root has the
\* guide's id) has grown to five nodes over three levels by attachments.
C19_Witness ==
    \E g \in GuideIds, ai \in TreeProviders :
        /\ HasTree(guides[g], ai)
        /\ NodeId(guides[g].trees[ai]) = g
        /\ NodeCount(guides[g].trees[ai]) = 5
        /\ \E id \in IdsOf(guides[g].trees[ai]) :
               DepthOf(guides[g].trees[ai], id) = 2

\* Both callers' add_subtopic_node calls, on the same guide and provider,
\* have returned True and neither caller has gone on.
BothReturnedTrue ==
    /\ \A c \in Callers : call[c].pc = "done" /\ call[c].ret = TRUE
    /\ \A c, d \in Callers :
          call[c].guide_id = call[d].guide_id /\ call[c].ai = call[d].ai

\* The callers whose new node is in the persisted tree of their call.
Attached ==
    {c \in Callers :
        /\ HasTree(guides[call[c].guide_id], call[c].ai)
        /\ DepthOf(guides[call[c].guide_id].trees[call[c].ai],
                   call[c].new_node.node_id) >= 0}

\* C25: overlapping attachments are not serialized, and what the race costs
\* is the loser's node: when two overlapping calls on the same guide and
\* provider have both returned True, the persisted tree holds the new node
\* of at least one of them (and, as the witness shows, in some
\* interleavings of only one).
C25_RaceLosesAtMostOne == BothReturnedTrue => Attached # {}

\* Witness of C25: on a tree stored by a top-level research (its root has
\* the guide's id), both calls returned True and the persisted tree holds
\* the new node of one of them only.
C25_Witness ==
    /\ BothReturnedTrue
    /\ Cardinality(Attached) = 1
    /\ \A c \in Callers :
          NodeId(guides[call[c].guide_id].trees[call[c].ai]) = call[c].guide_id

\* ------------------------------------------------------------------------
\* Properties of research_selected_subtopics
\* ------------------------------------------------------------------------

\* The tasks of the current batch that have not settled.
InFlight == {k \in 1..Len(batch_tasks) : batch_tasks[k].state = "running"}

\* C8: called with an empty list, research_selected_subtopics ends at once
\* with an error outcome (status error, never the completed outcome),
\* starts no subtopic research and writes nothing to the store.
C8_EmptyInputFails ==
    (br_pc # "idle" /\ selected_topics = <<>>) =>
        /\ br_pc = "done"
        /\ br_result.status = "error"
        /\ research_started = 0
        /\ store_writes = 0
        /\ research_doc = [progress |-> InitialProgress, subtopic_results |-> <<>>]
        /\ guide_results = <<>>

\* Witness of C8: the call with the empty list has returned its error.
C8_Witness ==
    /\ br_pc = "done"
    /\ selected_topics = <<>>
    /\ br_result.status = "error"
    /\ br_result.subtopics_researched = 0

\* C9: when a call with a non-empty list finishes, completed_topics equals
\* len(topics) and the progress last persisted has completed_topics =
\* total_topics.
C9_AllTopicsCompleted ==
    (br_pc = "done" /\ selected_topics # <<>>) =>
        /\ completed_topics = Len(selected_topics)
        /\ research_doc.progress.completed_topics = research_doc.progress.total_topics
        /\ research_doc.progress.total_topics = Len(selected_topics)

\* C10: at every moment at most concurrency_limit (3) subtopic research
\* tasks are in flight.
C10_AtMostThreeInFlight == Cardinality(InFlight) <= concurrency_limit

\* Witness of C10: more than three topics were selected and three tasks are
\* in flight together.
C10_Witness ==
    /\ Len(selected_topics) > concurrency_limit
    /\ Cardinality(InFlight) = concurrency_limit

\* C20: throughout a run total_topics equals len(topics), the persisted
\* progress has 0 <= completed_topics <= total_topics with total_topics the
\* length of the list once written, and no write lowers the persisted
\* completed_topics.
C20_ProgressMonotone ==
    /\ [](br_pc \in {"batch", "gather"} => total_topics = Len(selected_topics))
    /\ [](/\ 0 <= research_doc.progress.completed_topics
          /\ research_doc.progress.completed_topics
                 <= research_doc.progress.total_topics
          /\ research_doc.progress.total_topics
                 \in {InitialProgress.total_topics, Len(selected_topics)}
          /\ completed_topics <= total_topics)
    /\ [][research_doc'.progress.completed_topics
             >= research_doc.progress.completed_topics]_vars

\* Witness of C20: a run over more topics than one batch holds has ended
\* with every topic's completion persisted.
C20_Witness ==
    /\ br_pc = "done"
    /\ Len(selected_topics) > concurrency_limit
    /\ research_doc.progress =
          [total_topics |-> Len(selected_topics),
           completed_topics |-> Len(selected_topics)]
    /\ store_writes > Len(selected_topics)

\* C21: whenever research tasks are started (a batch begins), every task
\* started before has settled.
C21_BatchesDoNotOverlap ==
    [][research_started' > research_started =>
          research_settled = research_started]_vars

\* Witness of C21: the tasks of the second batch are in flight, after the
\* three tasks of the first batch have settled.
C21_Witness ==
    /\ br_pc = "gather"
    /\ br_i = concurrency_limit
    /\ InFlight # {}
    /\ research_settled = concurrency_limit
    /\ research_started > concurrency_limit

\* The entries of the selection that name a topic.
NamedTopics(topics) == SelectSeq(topics, LAMBDA td : td.topic # "")

\* C22: the outcome recorded for a task names the task's topic and, when
\* the research raised, has status error and an error message; and a run
\* ends as completed after researching every named topic of the selection,
\* whichever of them raised, with their outcomes in order.
C22_ErrorRecordedAndIsolated ==
    /\ [][Len(subtopic_results') = Len(subtopic_results) + 1 =>
             LET t == batch_tasks[br_j + 1]
                 o == subtopic_results'[Len(subtopic_results')]
             IN  /\ o.topic = t.topic
                 /\ t.state = "error" =>
                       /\ o.status = "error"
                       /\ "error" \in DOMAIN o
                       /\ o.error # ""
                 /\ t.state = "completed" => o.status = "completed"]_vars
    /\ []((br_pc = "done" /\ selected_topics # <<>>) =>
             /\ br_result.status = "completed"
             /\ research_started = Len(NamedTopics(selected_topics))
             /\ research_settled = research_started
             /\ Len(br_result.results) = research_started
             /\ \A i \in 1..Len(br_result.results) :
                    br_result.results[i].topic = NamedTopics(selected_topics)[i].topic)

\* Witness of C22: a run over four named topics has ended; the research of
\* the first raised, and the second (same batch) and the fourth (next
\* batch) were researched and completed.
C22_Witness ==
    /\ br_pc = "done"
    /\ Len(selected_topics) = concurrency_limit + 1
    /\ Len(br_result.results) = concurrency_limit + 1
    /\ br_result.results[1].status = "error"
    /\ br_result.results[1].error # ""
    /\ br_result.results[2].status = "completed"
    /\ br_result.results[concurrency_limit + 1].status = "completed"

\* C23: a run over a non-empty list returns one outcome per entry of the
\* list, in the order of the list, the i-th naming the i-th entry's topic.
C23_OneOutcomePerTopic ==
    (br_pc = "done" /\ selected_topics # <<>>) =>
        /\ Len(br_result.results) = Len(selected_topics)
        /\ \A i \in 1..Len(selected_topics) :
               br_result.results[i].topic = selected_topics[i].topic

\* C24: a run over a non-empty list always ends with an outcome (a failed
\* progress write does not abort it), and when the write of the final
\* outcomes failed (the guide does not hold them) the outcome is not the
\* completed one: the failure is raised to the caller.
C24_FinalStoreFailureSurfaced ==
    (br_pc = "done" /\ selected_topics # <<>>) =>
        /\ br_result.status # "none"
        /\ guide_results # subtopic_results => br_result.status # "completed"

\* C28: the research of a topic starts only when every topic started before
\* has finished, has been counted in completed_topics and has had its
\* progress written: topics start one at a time, each after the progress
\* write of the one before.
C28_ProgressBeforeNextTopic ==
    [][research_started' > research_started =>
          /\ research_started' = research_started + 1
          /\ research_settled = research_started
          /\ completed_topics = research_started
          /\ store_writes = completed_topics + 1]_vars


\* ------------------------------------------------------------------------
\* Properties of run_research
\* ------------------------------------------------------------------------

\* run_research is over, by a return or by an exception.
RunOver == rr_pc \in {"returned", "raised"}

\* Both searches ran and neither raised.
NeitherRaised == \A s \in SearchNames : rr_task[s].state = "returned"

\* Each search was invoked once, the results were combined once and stored
\* once, the guide's status is "paused_research", and the call returned
\* that status with the guide id: the inserted one exactly when a guide was
\* inserted, the given one otherwise.
PausedOutcome ==
    /\ rr_pc = "returned"
    /\ \A s \in SearchNames : rr_task[s].calls = 1
    /\ rr_combined = 1
    /\ rr_stored = 1
    /\ rr_status = "paused_research"
    /\ ~rr_result.raised
    /\ rr_result.status = "paused_research"
    /\ rr_result.guide_id = rr_guide_id
    /\ rr_guide_id \in {GivenGuideId, InsertedGuideId}
    /\ (rr_guide_id = InsertedGuideId) = (rr_inserted = 1)

C30_CacheOnlyAfterLiveFailure ==
    \A s \in SearchNames :
        rr_task[s].lookups > 0 => rr_task[s].live = "failed"

\* ------------------------------------------------------------------------
\* Properties of start_research
\* ------------------------------------------------------------------------

\* C27: a request whose topic validate_topic answers with an error message
\* is answered 400 with that error, and no guide document is inserted and
\* no research call started for it.
C27_InvalidTopicRejected ==
    (/\ sr_request.has_topic
     /\ ~validate_topic(sr_request.topic).raised
     /\ validate_topic(sr_request.topic).error # "")
        => /\ sr_response.code = 400
           /\ sr_response.error = validate_topic(sr_request.topic).error
           /\ sr_inserted = 0
           /\ sr_research_calls = 0

\* Witness of C27: a topic of three words and nine characters, which only
\* the check of the total length rejects, has been answered 400.
C27_Witness ==
    /\ sr_request.has_topic
    /\ sr_request.topic.type = "str"
    /\ sr_request.topic.words = <<1, 1, 4>>
    /\ sr_request.topic.valid_chars
    /\ sr_response.code = 400
    /\ sr_response.error = "Topic too short"
    /\ sr_inserted = 0

\* ------------------------------------------------------------------------
\* Properties of MongoDBService.initialize
\* ------------------------------------------------------------------------

\* C29: whatever calls of initialize overlap, a call that returns leaves
\* client, db and both collections set, and a client is constructed only
\* when the service has none (so one client between two closes).
C29_InitializeIdempotent ==
    [][\A c \in Coroutines :
          (init_pc[c] = "called" /\ init_pc'[c] = "done")
              => /\ client' # Null
                 /\ db' # Null
                 /\ research_collection' # Null
                 /\ guide_collection' # Null
                 /\ (client # Null => clients_created' = clients_created)
      ]_vars

\* ------------------------------------------------------------------------
\* Properties of POST /subtopics/<guide_id> and its status endpoint
\* ------------------------------------------------------------------------

RunningRuns == {r \in SubThreads : sub_run[r].pc = "running"}

\* C31: at most one subtopic research run is active for the guide at any
\* time, also when two POST /subtopics requests overlap.
C31_AtMostOneRun == Cardinality(RunningRuns) <= 1

\* C32: whenever subtopic_research_in_progress is set it is eventually
\* cleared again, whether the run succeeds, raises or its store fails.
C32_FlagReturnsToFalse ==
    sub_research.in_progress ~> ~sub_research.in_progress

\* The step in which the run of r ends and its store adds a result.
StoresResult(r) ==
    /\ sub_run[r].pc = "running"
    /\ sub_run'[r].pc = "completed"
    /\ sub_run'[r].stored
    /\ sub_research'.results > sub_research.results

NodeInTree(c) ==
    /\ HasTree(guides[call[c].guide_id], call[c].ai)
    /\ DepthOf(guides[call[c].guide_id].trees[call[c].ai],
               call[c].new_node.node_id) >= 0

\* C33: the response to a subtopic request is "success" with the new node
\* only if add_subtopic_node returned True, that is only if the node is in
\* the persisted tree of the parent guide (a request for a guide that does
\* not exist is answered 404 before it gets there).
C33_SuccessOnlyIfAttached ==
    \A c \in Callers :
        (/\ call[c].pc = "done"
         /\ guides[call[c].guide_id].exists
         /\ SubtopicResponse(call[c].ret, call[c].new_node).status = "success")
        => (call[c].ret /\ NodeInTree(c))

\* C34: the step of a subtopic request that rewrites the members' flags
\* leaves the council's enablement as it was (nothing later in the request
\* writes the flags), also for an ai that is no member.
C34_SubtopicKeepsEnablement ==
    [][\A ai \in Providers \cup UnknownNames :
          EnableOnly(ai) => members' = members]_vars

\* The two calls are the only ones made on the stored tree, both have
\* ended, and both named the root of the same provider tree as parent.
TwoRootCalls ==
    /\ next_id = FirstNodeId + 2
    /\ \A c \in Callers : call[c].pc = "done"
    /\ \A c, d \in Callers :
          call[c].guide_id = call[d].guide_id /\ call[c].ai = call[d].ai
    /\ \A c \in Callers :
          /\ HasTree(guides[call[c].guide_id], call[c].ai)
          /\ call[c].parent_node_id # Null
          /\ call[c].parent_node_id =
                NodeId(guides[call[c].guide_id].trees[call[c].ai])

\* The new node of c is a child of the root of the persisted tree.
ChildOfRoot(c) ==
    LET kids == Children(guides[call[c].guide_id].trees[call[c].ai])
    IN \E i \in 1..Len(kids) : NodeId(kids[i]) = call[c].new_node.node_id

\* C35: two overlapping add_subtopic_node calls whose parent is the root of
\* the same provider tree both return True and both new nodes are children
\* of the root in the persisted tree, however the calls interleave.
C35_RootCallsBothAttach ==
    TwoRootCalls => \A c \in Callers : call[c].ret /\ ChildOfRoot(c)

\* Both root calls have ended and the root has both new nodes as children.
C35_Witness ==
    /\ TwoRootCalls
    /\ \A c \in Callers : call[c].ret /\ ChildOfRoot(c)
    /\ Len(Children(guides[call["c1"].guide_id].trees[call["c1"].ai])) = 2

\* ------------------------------------------------------------------------
\* Order of the two searches of run_research
\* ------------------------------------------------------------------------

\* Both searches ran and every store call of the run went through.
RanWithStore ==
    /\ RunOver
    /\ ~rr_store_error
    /\ \A s \in SearchNames :
          rr_task[s].state \in {"returned", "raised"} /\ rr_task[s].logs_ok

\* The searches in the order in which they came to their end.
CompletionOrder ==
    [i \in 1..2 |-> CHOOSE s \in SearchNames : rr_task[s].rank = i]

ReverseOrder == <<CompletionOrder[2], CompletionOrder[1]>>

\* What run_research ended with: raised or returned, the guide's status and
\* the warnings.
ActualOutcome ==
    [raised |-> rr_result.raised, status |-> rr_status,
     warnings |-> rr_result.warnings]

\* The outcome of the run had the searches ended in the given order, each
\* with the same live outcome and the same cache as in the run.
OutcomeInOrder(order) ==
    LET cache(s) == IF rr_task[s].cache = "none" THEN "miss"
                    ELSE rr_task[s].cache
        res0 == [s \in SearchNames |-> NoData]
        o1 == SearchOutcome(order[1], rr_task[order[1]].live, TRUE,
                            cache(order[1]), TRUE, res0)
        res1 == [res0 EXCEPT ![order[1]] = o1.result]
        o2 == SearchOutcome(order[2], rr_task[order[2]].live, TRUE,
                            cache(order[2]), TRUE, res1)
        res2 == [res1 EXCEPT ![order[2]] = o2.result]
        task == [s \in SearchNames |->
                    [state |-> IF (IF s = order[1] THEN o1 ELSE o2).raised
                               THEN "raised" ELSE "returned"]]
        dec == StatusAfterSearches(res2)
    IN [raised |-> dec.raises, status |-> dec.status,
        warnings |-> IF dec.raises THEN "" ELSE ErrorMessage(task)]

\* The run ended as the searches' outcomes in their order of completion
\* determine.
OutcomeFollowsOrder == RanWithStore => ActualOutcome = OutcomeInOrder(CompletionOrder)

\* C36: the outcome of run_research (raised or returned, the guide's final
\* status, the warnings) is the same as it would have been had the Google
\* and the Grok search ended in the opposite order, with the same searches
\* failing and the same cache contents.
C36_OutcomeIgnoresOrder ==
    RanWithStore => ActualOutcome = OutcomeInOrder(ReverseOrder)

\* ------------------------------------------------------------------------
\* Properties of create_research and get_research_results_api
\* ------------------------------------------------------------------------

\* C37: when the create-research request that stored a session has
\* finished, whether conduct_research returned or raised, the guide of the
\* session no longer has the status "initializing".
C37_NotLeftInitializing ==
    (api_pc = "done" /\ api_session # Null)
        => api_guides[api_session].status # "initializing"

\* The step is a GET of the results of guide g, which exists.
GetsResultsOf(g) ==
    /\ api_get' # api_get
    /\ api_get'.guide_id = g
    /\ api_guides[g].exists

\* C38: for an existing guide whose research has not been stored yet the
\* results endpoint reports "initializing" with empty trees, and it reports
\* "completed" only when the guide's stored status is "completed" and its
\* trees have been stored.
C38_ReportsStoredState ==
    [][\A g \in ApiGuideIds :
          GetsResultsOf(g) =>
              /\ ~api_guides[g].has_trees =>
                    (api_get'.status = "initializing" /\ api_get'.trees = {})
              /\ api_get'.status = "completed" =>
                    (api_guides[g].status = "completed"
                     /\ api_guides[g].has_trees)]_vars

\* ------------------------------------------------------------------------
\* Properties of approve_research
\* ------------------------------------------------------------------------

\* The guide's status becomes "paused_outline" only from "paused_research".
OutlineOnlyFromPaused ==
    (rr_status' = "paused_outline" /\ rr_status # "paused_outline")
        => rr_status = "paused_research"

\* A request that finds the guide in another status than "paused_research"
\* is answered with an error and leaves the guide as it is.
OtherStatusRejected ==
    \A t \in ApproveThreads :
        (/\ ap_pc[t] = "idle"
         /\ ap_pc'[t] # "idle"
         /\ rr_status # "paused_research")
        => /\ ap_pc'[t] = "done"
           /\ ap_response'[t] \in {400, 404, 500}
           /\ rr_status' = rr_status

\* The step in which run_research, its searches over, comes to its end.
RunEnds == rr_pc = "searching" /\ rr_pc' \in {"returned", "raised"}

====
